---- MODULE Spec2Model ----
(***************************************************************************)
(* Model of the budgeting API of backend-rockefeller-finance.              *)
(*                                                                         *)
(* The repository holds four variants of one Express server.  The ledger   *)
(* and price handlers modelled here are those of the most complete         *)
(* variant, src/unnamed/part_000 lines 526-1212 (bcrypt, refresh tokens,   *)
(* three price sources); src/server.js carries the same ledger handlers    *)
(* except where a comment says otherwise.                                  *)
(*                                                                         *)
(* The ledger routes are modelled in whole units of money: injections are  *)
(* multiples of 20 units so that the five weights 0.5/0.2/0.15/0.05/0.1    *)
(* give whole shares, for which binary64 arithmetic is exact.  Fractional  *)
(* amounts are modelled separately (SpecNumbers) with binary64 arithmetic  *)
(* on the inject, record and delete routes.  Vietnamese labels are written *)
(* without diacritics.                                                     *)
(***************************************************************************)
EXTENDS Integers, Sequences, FiniteSets, TLC

VARIABLES
  db,       \* the stored User document of the account (its ledger fields)
  version,  \* the stored __v, counted from the start of the current round
  req,      \* per request slot: where the handler stands and what it loaded
  res,      \* per request slot: the response sent
  base,     \* the stored document when the current round of requests began
  rounds,   \* rounds of overlapping requests begun so far
  mark,     \* bookkeeping: the ledger before the latest accepted expense
  injected, \* bookkeeping: sum of accepted injections since the last reset
  redisClient,  \* "connected", or "null" when the connection failed at start
  cmcKey,   \* whether process.env.CMC_API_KEY is set
  cache,    \* the Redis entry under "bitcoin_price"
  job,      \* the GET /api/bitcoin-price request being served
  out,      \* the response of that request
  cachedNumber, \* bookkeeping: the price whose string is in the cache
  build,    \* which of the repository's copies of the server is running
  db64,     \* the ledger with its balances as binary64 values
  mark64,   \* bookkeeping: that ledger before the latest accepted expense
  historyCache, \* the Redis entry under "bitcoin_history"
  historyJob,   \* the GET /api/bitcoin-history request being served
  historyOut,   \* the response of that request
  refreshToken, \* the refreshToken field of the stored User document
  clock,    \* the time in seconds (Date.now() / 1000, floored)
  logins,   \* bookkeeping: the refresh tokens of the successful logins, in order
  authOut   \* the latest /api/login or /api/refresh-token request and its response

ledgerVars == <<db, version, req, res, base, rounds, mark, injected>>

priceVars == <<redisClient, cmcKey, cache, job, out, cachedNumber, build>>

numberVars == <<db64, mark64>>

historyVars == <<historyCache, historyJob, historyOut>>

sessionVars == <<refreshToken, clock, logins, authOut>>

vars == <<db, version, req, res, base, rounds, mark, injected,
          redisClient, cmcKey, cache, job, out, cachedNumber, build, db64, mark64,
          historyCache, historyJob, historyOut,
          refreshToken, clock, logins, authOut>>

----------------------------------------------------------------------------
(* Bounds *)

MaxExpenses == 2
MaxInvestments == 1
MaxBudget == 20
MaxRounds == 2

----------------------------------------------------------------------------
(* Data *)

Slots == {1, 2}

Keys == {"essentials", "savings", "selfInvestment", "charity", "emergency"}

\* userSchema defaults: a freshly registered account
NewUser ==
  [initialBudget |-> 0,
   allocations |-> [k \in Keys |-> 0],
   expenses |-> <<>>,
   investmentHistory |-> <<>>]

\* the object literal indexed by the request's category
CategoryTable ==
  [c \in {"Tieu dung thiet yeu", "Tiet kiem bat buoc", "Dau tu ban than",
          "Tu thien", "Du phong linh hoat"} |->
     CASE c = "Tieu dung thiet yeu" -> "essentials"
       [] c = "Tiet kiem bat buoc" -> "savings"
       [] c = "Dau tu ban than" -> "selfInvestment"
       [] c = "Tu thien" -> "charity"
       [] c = "Du phong linh hoat" -> "emergency"]

Labels == DOMAIN CategoryTable

\* property names every object literal inherits from Object.prototype
ObjectPrototypeNames == {"constructor", "toString"}

Undefined == "undefined"
Inherited == "[inherited]"

\* { ... }[category]: own property, inherited member (truthy), or undefined
categoryKey(category) ==
  IF category \in Labels THEN CategoryTable[category]
  ELSE IF category \in ObjectPrototypeNames THEN Inherited
  ELSE Undefined

\* the check with >= in the place of >
ExceedsOrEqualsAllocation(amount, allocations, key) ==
  key \in Keys /\ amount >= allocations[key]

\* user.allocations[categoryKey]; a key that is no schema path reads undefined
\* and every comparison with undefined is false
ExceedsAllocation(amount, allocations, key) ==
  key \in Keys /\ amount > allocations[key]

\* user.allocations[categoryKey] op= amount; a key that is no schema path is
\* not persisted
AddToAllocation(allocations, key, delta) ==
  IF key \in Keys THEN [allocations EXCEPT ![key] = @ + delta] ELSE allocations

RECURSIVE SumSeq(_)
SumSeq(s) == IF s = <<>> THEN 0 ELSE Head(s).amount + SumSeq(Tail(s))

RECURSIVE SumOver(_, _)
SumOver(f, S) ==
  IF S = {} THEN 0
  ELSE LET k == CHOOSE x \in S : TRUE IN f[k] + SumOver(f, S \ {k})

SumAllocations(allocations) == SumOver(allocations, Keys)

\* a removal of the last element, whatever the index
SpliceLast(s, index) == SubSeq(s, 1, Len(s) - 1)

\* Array.prototype.splice(index, 1)
Splice(s, index) ==
  [j \in 1..(Len(s) - 1) |-> IF j <= index THEN s[j] ELSE s[j + 1]]

\* express-validator isFloat({ min: 0 }) over the modelled numbers
isFloatMin0(v) == v >= 0

notEmpty(str) == str # ""

\* parseInt(req.params.index): NaN for a non-numeric string
NaN == [nan |-> TRUE, n |-> 0]
Int32(n) == [nan |-> FALSE, n |-> n]
parseInt(str) ==
  CASE str = "-1" -> Int32(-1)
    [] str = "0" -> Int32(0)
    [] str = "1" -> Int32(1)
    [] str = "2" -> Int32(2)
    [] str = "3" -> Int32(3)
    [] str = "4" -> Int32(4)
    [] OTHER -> NaN

\* index < 0 || index >= length; both comparisons are false for NaN
InvalidIndex(index, length) ==
  ~index.nan /\ (index.n < 0 \/ index.n >= length)

----------------------------------------------------------------------------
(* Request inputs *)

Tokens == {"valid", "missing", "invalid"}

BudgetBodies == {[initialBudget |-> a] : a \in {-20, 0, 20}}

ExpenseBodies ==
  {[amount |-> 3, category |-> c, purpose |-> "p", location |-> "l"] :
     c \in {"Tieu dung thiet yeu", "Dau tu ban than", "constructor", "Khac"}}
  \cup {[amount |-> -1, category |-> "Tu thien", purpose |-> "p", location |-> "l"],
        [amount |-> 3, category |-> "Tu thien", purpose |-> "", location |-> "l"]}

AllocationBodies == {[k \in Keys |-> v] : v \in {-1, 3}}

InvestmentBodies ==
  {[amount |-> a, price |-> 2, type |-> "Bitcoin ETF"] : a \in {-1, 1, 3}}

IndexParams == {"-1", "0", "1", "2", "3", "abc"}

NoBody == [none |-> TRUE]

\* the requests that are let overlap
RaceArgs(op) ==
  CASE op = "postInitialBudget" -> {[initialBudget |-> 20]}
    [] op = "postExpenses" ->
         {[amount |-> 3, category |-> c, purpose |-> "p", location |-> "l"] :
            c \in {"Tieu dung thiet yeu", "Dau tu ban than"}}
    [] op = "postAllocations" -> {[k \in Keys |-> 3]}
    [] op = "postInvestments" -> {[amount |-> 1, price |-> 2, type |-> "Bitcoin ETF"]}
    [] op = "deleteBudget" -> {NoBody}
    [] OTHER -> {"0"}

----------------------------------------------------------------------------
(* Handlers: the code between findById and the response, as a function of  *)
(* the loaded document.  A result carries the response, the document as    *)
(* the handler left it, whether save() was reached, and how each array was *)
(* changed (Mongoose sends push as $push and splice/assignment as $set).   *)

Reply(status, code, user) ==
  [status |-> status, code |-> code, user |-> user, save |-> FALSE,
   expensesOp |-> "none", investmentsOp |-> "none"]

Saved(user, expensesOp, investmentsOp) ==
  [status |-> 200, code |-> "OK", user |-> user, save |-> TRUE,
   expensesOp |-> expensesOp, investmentsOp |-> investmentsOp]

\* thrown inside try: the catch block answers 500 SERVER_ERROR
Thrown(user) == Reply(500, "SERVER_ERROR", user)

\* the weights with those of charity and emergency exchanged
WeightPercentSwapped ==
  [k \in Keys |->
     CASE k = "essentials" -> 50
       [] k = "savings" -> 20
       [] k = "selfInvestment" -> 15
       [] k = "charity" -> 10
       [] k = "emergency" -> 5]

\* newBudget * weight, weights 0.5 / 0.2 / 0.15 / 0.05 / 0.1
WeightPercent ==
  [k \in Keys |->
     CASE k = "essentials" -> 50
       [] k = "savings" -> 20
       [] k = "selfInvestment" -> 15
       [] k = "charity" -> 5
       [] k = "emergency" -> 10]

Share(newBudget, k) == (newBudget * WeightPercent[k]) \div 100

postInitialBudget(user, body) ==
  LET newBudget == body.initialBudget
  IN Saved([user EXCEPT
              !.initialBudget = @ + newBudget,
              !.allocations = [k \in Keys |-> @[k] + Share(newBudget, k)]],
           "none", "none")

\* postExpenses without `user.initialBudget -= amount`
postExpensesKeepBudget(user, body) ==
  LET key == categoryKey(body.category)
      amount == body.amount
  IN IF key = Undefined THEN Reply(400, "INVALID_CATEGORY", user)
     ELSE IF ExceedsAllocation(amount, user.allocations, key)
     THEN Reply(400, "INSUFFICIENT_ALLOCATION", user)
     ELSE Saved([user EXCEPT
                   !.expenses = Append(@, body),
                   !.allocations = AddToAllocation(@, key, -amount)],
                "push", "none")

postExpenses(user, body) ==
  LET key == categoryKey(body.category)
      amount == body.amount
  IN IF key = Undefined THEN Reply(400, "INVALID_CATEGORY", user)
     ELSE IF ExceedsAllocation(amount, user.allocations, key)
     THEN Reply(400, "INSUFFICIENT_ALLOCATION", user)
     ELSE Saved([user EXCEPT
                   !.expenses = Append(@, body),
                   !.initialBudget = @ - amount,
                   !.allocations = AddToAllocation(@, key, -amount)],
                "push", "none")

\* deleteExpense without `user.allocations[categoryKey] += amount`
deleteExpenseNoRefund(user, param) ==
  LET index == parseInt(param)
  IN IF InvalidIndex(index, Len(user.expenses))
     THEN Reply(400, "INVALID_INDEX", user)
     ELSE IF index.nan THEN Thrown(user)
     ELSE LET deletedExpense == user.expenses[index.n + 1]
          IN Saved([user EXCEPT
                      !.initialBudget = @ + deletedExpense.amount,
                      !.expenses = Splice(@, index.n)],
                   "set", "none")

deleteExpense(user, param) ==
  LET index == parseInt(param)
  IN IF InvalidIndex(index, Len(user.expenses))
     THEN Reply(400, "INVALID_INDEX", user)
     ELSE IF index.nan THEN Thrown(user)
     ELSE LET deletedExpense == user.expenses[index.n + 1]
              key == categoryKey(deletedExpense.category)
          IN Saved([user EXCEPT
                      !.initialBudget = @ + deletedExpense.amount,
                      !.allocations = AddToAllocation(@, key, deletedExpense.amount),
                      !.expenses = Splice(@, index.n)],
                   "set", "none")

\* postAllocations that reconciles initialBudget with the new allocation sum
postAllocationsReconciled(user, body) ==
  Saved([user EXCEPT !.allocations = body,
                     !.initialBudget = SumAllocations(body)],
        "none", "none")

postAllocations(user, body) ==
  Saved([user EXCEPT !.allocations = body], "none", "none")

deleteBudget(user) ==
  Saved([user EXCEPT
           !.initialBudget = 0,
           !.allocations = [k \in Keys |-> 0],
           !.expenses = <<>>,
           !.investmentHistory = <<>>],
        IF user.expenses = <<>> THEN "none" ELSE "set",
        IF user.investmentHistory = <<>> THEN "none" ELSE "set")

\* amount / totalPortfolio > 0.1
ExceedsPortfolioShare(amount, totalPortfolio) == 10 * amount > totalPortfolio

\* postInvestments that answers the portfolio warning after committing
postInvestmentsCommitOnWarning(user, body) ==
  LET investmentBudget ==
        user.allocations["selfInvestment"] + user.allocations["emergency"]
      totalPortfolio ==
        SumAllocations(user.allocations) + SumSeq(user.investmentHistory)
      amount == body.amount
      committed == [user EXCEPT
                      !.investmentHistory = Append(@, body),
                      !.allocations["selfInvestment"] = @ - amount]
  IN IF amount > investmentBudget
     THEN Reply(400, "INSUFFICIENT_BUDGET", user)
     ELSE IF totalPortfolio > 0 /\ ExceedsPortfolioShare(amount, totalPortfolio)
     THEN [Saved(committed, "none", "push") EXCEPT
             !.status = 400, !.code = "PORTFOLIO_RISK"]
     ELSE Saved(committed, "none", "push")

postInvestments(user, body) ==
  LET investmentBudget ==
        user.allocations["selfInvestment"] + user.allocations["emergency"]
      totalPortfolio ==
        SumAllocations(user.allocations) + SumSeq(user.investmentHistory)
      amount == body.amount
  IN IF amount > investmentBudget
     THEN Reply(400, "INSUFFICIENT_BUDGET", user)
     ELSE IF totalPortfolio > 0 /\ ExceedsPortfolioShare(amount, totalPortfolio)
     THEN Reply(400, "PORTFOLIO_RISK", user)
     ELSE Saved([user EXCEPT
                   !.investmentHistory = Append(@, body),
                   !.allocations["selfInvestment"] = @ - amount],
                "none", "push")

\* deleteInvestment without `user.allocations.selfInvestment += amount`
deleteInvestmentNoRefund(user, param) ==
  LET index == parseInt(param)
  IN IF InvalidIndex(index, Len(user.investmentHistory))
     THEN Reply(400, "INVALID_INDEX", user)
     ELSE IF index.nan THEN Thrown(user)
     ELSE Saved([user EXCEPT !.investmentHistory = Splice(@, index.n)],
                "none", "set")

deleteInvestment(user, param) ==
  LET index == parseInt(param)
  IN IF InvalidIndex(index, Len(user.investmentHistory))
     THEN Reply(400, "INVALID_INDEX", user)
     ELSE IF index.nan THEN Thrown(user)
     ELSE LET deletedInvestment == user.investmentHistory[index.n + 1]
          IN Saved([user EXCEPT
                      !.allocations["selfInvestment"] = @ + deletedInvestment.amount,
                      !.investmentHistory = Splice(@, index.n)],
                   "none", "set")

\* DELETE /api/budget of src/server.js: investmentHistory is not assigned
deleteBudgetServerJs(user) ==
  Saved([user EXCEPT
           !.initialBudget = 0,
           !.allocations = [k \in Keys |-> 0],
           !.expenses = <<>>],
        IF user.expenses = <<>> THEN "none" ELSE "set",
        "none")

\* POST /api/investments of src/server.js: the portfolio is the allocations
\* alone and no allocation is charged
postInvestmentsServerJs(user, body) ==
  LET investmentBudget ==
        user.allocations["selfInvestment"] + user.allocations["emergency"]
      totalPortfolio == SumAllocations(user.allocations)
      amount == body.amount
  IN IF amount > investmentBudget
     THEN Reply(400, "INSUFFICIENT_BUDGET", user)
     ELSE IF totalPortfolio > 0 /\ ExceedsPortfolioShare(amount, totalPortfolio)
     THEN Reply(400, "PORTFOLIO_RISK", user)
     ELSE Saved([user EXCEPT !.investmentHistory = Append(@, body)],
                "none", "push")

\* POST /api/investments of part_000 365-409: no validator chain; the
\* handler checks the body itself, then pushes to `user.investments`, which
\* is no path of the schema: the TypeError is answered 500
postInvestmentsPart1(user, body) ==
  IF body.amount = 0 \/ body.price = 0 \/ body.type = ""
  THEN Reply(400, "none", user)
  ELSE IF body.amount <= 0 \/ body.price <= 0
  THEN Reply(400, "none", user)
  ELSE IF body.type \notin {"Bitcoin ETF", "Vang", "Chung khoan"}
  THEN Reply(400, "none", user)
  ELSE Thrown(user)

\* DELETE /api/investments/:index of src/server.js: nothing is refunded, and
\* splice(NaN, 1) starts at 0
deleteInvestmentServerJs(user, param) ==
  LET index == parseInt(param)
  IN IF InvalidIndex(index, Len(user.investmentHistory))
     THEN Reply(400, "INVALID_INDEX", user)
     ELSE Saved([user EXCEPT
                   !.investmentHistory =
                     Splice(@, IF index.nan THEN 0 ELSE index.n)],
                "none", "set")

Ops == {"postInitialBudget", "postExpenses", "deleteExpense", "postAllocations",
        "deleteBudget", "postInvestments", "deleteInvestment"}

\* the copies whose ledger routes are modelled: part_000 526-1212 and
\* src/server.js
LedgerBuilds == {"part2", "server.js"}

Handle(op, arg, user) ==
  CASE op = "postInitialBudget" -> postInitialBudget(user, arg)
    [] op = "postExpenses" -> postExpenses(user, arg)
    [] op = "deleteExpense" -> deleteExpense(user, arg)
    [] op = "postAllocations" -> postAllocations(user, arg)
    [] op = "deleteBudget" ->
         IF build \in {"server.js", "part1"} THEN deleteBudgetServerJs(user)
         ELSE deleteBudget(user)
    [] op = "postInvestments" ->
         IF build = "server.js" THEN postInvestmentsServerJs(user, arg)
         ELSE IF build = "part1" THEN postInvestmentsPart1(user, arg)
         ELSE postInvestments(user, arg)
    [] op = "deleteInvestment" ->
         IF build \in {"server.js", "part1"} THEN deleteInvestmentServerJs(user, arg)
         ELSE deleteInvestment(user, arg)

\* the express-validator chain of each route
Valid(op, arg) ==
  CASE op = "postInitialBudget" -> isFloatMin0(arg.initialBudget)
    [] op = "postExpenses" ->
         /\ isFloatMin0(arg.amount)
         /\ notEmpty(arg.category)
         /\ notEmpty(arg.purpose)
         /\ notEmpty(arg.location)
    [] op = "postAllocations" -> \A k \in Keys : isFloatMin0(arg[k])
    [] op = "postInvestments" ->
         \/ build = "part1"
         \/ /\ isFloatMin0(arg.amount)
            /\ isFloatMin0(arg.price)
            /\ notEmpty(arg.type)
    [] OTHER -> TRUE

\* authMiddleware
authMiddleware(token) ==
  CASE token = "missing" -> [status |-> 401, code |-> "NO_TOKEN"]
    [] token = "invalid" -> [status |-> 401, code |-> "INVALID_TOKEN"]
    [] OTHER -> [status |-> 0, code |-> "next"]

----------------------------------------------------------------------------
(* user.save(): one update of the stored document carrying the paths the   *)
(* handler changed.  A $set of a whole array is conditioned on the __v the *)
(* document was loaded with; $push is not.  Any array change increments    *)
(* __v.                                                                    *)

VersionError(r, loadedVersion, storedVersion) ==
  /\ (r.expensesOp = "set" \/ r.investmentsOp = "set")
  /\ loadedVersion # storedVersion

Last(s) == s[Len(s)]

\* a save that writes the balances and leaves the arrays for a later write
saveBalancesOnly(stored, loaded, r) ==
  [stored EXCEPT
     !.initialBudget =
       IF r.user.initialBudget # loaded.initialBudget
       THEN r.user.initialBudget ELSE stored.initialBudget,
     !.allocations =
       [k \in Keys |->
          IF r.user.allocations[k] # loaded.allocations[k]
          THEN r.user.allocations[k] ELSE stored.allocations[k]]]

save(stored, loaded, r) ==
  [initialBudget |->
     IF r.user.initialBudget # loaded.initialBudget
     THEN r.user.initialBudget ELSE stored.initialBudget,
   allocations |->
     [k \in Keys |->
        IF r.user.allocations[k] # loaded.allocations[k]
        THEN r.user.allocations[k] ELSE stored.allocations[k]],
   expenses |->
     CASE r.expensesOp = "push" -> Append(stored.expenses, Last(r.user.expenses))
       [] r.expensesOp = "set" -> r.user.expenses
       [] OTHER -> stored.expenses,
   investmentHistory |->
     CASE r.investmentsOp = "push" ->
            Append(stored.investmentHistory, Last(r.user.investmentHistory))
       [] r.investmentsOp = "set" -> r.user.investmentHistory
       [] OTHER -> stored.investmentHistory]

nextVersion(v, r) ==
  IF r.expensesOp # "none" \/ r.investmentsOp # "none" THEN v + 1 ELSE v


----------------------------------------------------------------------------
(* Requests *)

Idle == [pc |-> "idle", op |-> "none", arg |-> NoBody, user |-> NewUser, v |-> 0]

NoResponse == [status |-> 0, code |-> "none"]

NoMark == [phase |-> "none", before |-> NewUser]

Args(op) ==
  CASE op = "postInitialBudget" -> BudgetBodies
    [] op = "postExpenses" -> ExpenseBodies
    [] op = "postAllocations" -> AllocationBodies
    [] op = "postInvestments" -> InvestmentBodies
    [] op = "deleteBudget" -> {NoBody}
    [] OTHER -> IndexParams

WithinBounds(d) ==
  /\ Len(d.expenses) <= MaxExpenses
  /\ Len(d.investmentHistory) <= MaxInvestments
  /\ d.initialBudget <= MaxBudget

\* what a route does before its handler body: authMiddleware, then the
\* validator chain; NoResponse lets the handler body run
Gate(op, token, arg) ==
  LET auth == authMiddleware(token)
  IN IF auth.status # 0 THEN auth
     ELSE IF ~Valid(op, arg)
     THEN [status |-> 400, code |-> "VALIDATION_ERROR"]
     ELSE NoResponse

\* the handler body run on the document `loaded` (read at __v loadedVersion)
\* against the stored document: the response, and what is stored afterwards
Outcome(stored, storedVersion, loaded, loadedVersion, op, arg) ==
  LET r == Handle(op, arg, loaded)
      answer == [status |-> r.status, code |-> r.code]
  IN IF ~r.save
     THEN [db |-> stored, version |-> storedVersion, res |-> answer]
     ELSE IF VersionError(r, loadedVersion, storedVersion)
     THEN [db |-> stored, version |-> storedVersion,
           res |-> [status |-> 500, code |-> "SERVER_ERROR"]]
     ELSE [db |-> save(stored, loaded, r),
           version |-> nextVersion(storedVersion, r),
           res |-> answer]

----------------------------------------------------------------------------
(* The price feed: data.  Prices are JS numbers, written in hundredths of  *)
(* a dollar.  CoinGecko and CoinMarketCap quote the price as a JSON        *)
(* number; Binance quotes it as a JSON string, which the handler parses.   *)

fallbackPrice == 11778389

retries == 3

ttlSeconds == 300

Numbers == {12500000, 12500050, 0, -100}

Num(n) == [nan |-> FALSE, n |-> n]

\* Number.prototype.toString over the modelled numbers
NumberString ==
  [n \in Numbers |->
     CASE n = 12500000 -> "125000"
       [] n = 12500050 -> "125000.5"
       [] n = 0 -> "0"
       [] n = -100 -> "-1"]

\* Number.prototype.toFixed(0) in the place of toString
toFixed0(v) ==
  IF v.nan THEN "NaN"
  ELSE IF v.n = 12500050 THEN "125001"
  ELSE NumberString[v.n]

toString(v) == IF v.nan THEN "NaN" ELSE NumberString[v.n]

\* parseFloat that stops at the decimal point, as parseInt does
parseFloatWhole(str) ==
  CASE str = "125000" -> Num(12500000)
    [] str = "125000.5" -> Num(12500000)
    [] str = "0" -> Num(0)
    [] str = "-1" -> Num(-100)
    [] OTHER -> NaN

parseFloat(str) ==
  IF \E n \in Numbers : NumberString[n] = str
  THEN Num(CHOOSE n \in Numbers : NumberString[n] = str)
  ELSE NaN

Sources == {"A", "B", "C"}

NoData == [t |-> "none", n |-> 0, s |-> ""]

\* response bodies of CoinGecko (A) and CoinMarketCap (B): the quote object
\* missing, the price field missing, or a number
QuoteBodies ==
  {[t |-> "noquote", n |-> 0, s |-> ""], [t |-> "undefined", n |-> 0, s |-> ""]}
  \cup {[t |-> "number", n |-> n, s |-> ""] : n \in Numbers}

\* response bodies of Binance (C): no object at all, the price field
\* missing, or a string
TickerBodies ==
  {[t |-> "noquote", n |-> 0, s |-> ""], [t |-> "undefined", n |-> 0, s |-> ""]}
  \cup {[t |-> "string", n |-> 0, s |-> str] :
          str \in {"125000", "125000.5", "0", "-1", "abc"}}

\* what one axios.get can end in
Outcomes(source) ==
  {[kind |-> k, body |-> NoData] : k \in {"429", "timeout", "error"}}
  \cup {[kind |-> "ok", body |-> b] :
          b \in IF source = "C" THEN TickerBodies ELSE QuoteBodies}

\* data.bitcoin.usd, cmcData.data.BTC.quote.USD.price, parseFloat(binanceData.price)
Extract(source, body) ==
  IF body.t = "noquote"
  THEN [threw |-> TRUE, defined |-> FALSE, price |-> NaN]
  ELSE IF source = "C"
  THEN [threw |-> FALSE, defined |-> TRUE,
        price |-> IF body.t = "string" THEN parseFloat(body.s) ELSE NaN]
  ELSE IF body.t = "undefined"
  THEN [threw |-> FALSE, defined |-> FALSE, price |-> NaN]
  ELSE [threw |-> FALSE, defined |-> TRUE, price |-> Num(body.n)]

\* a chain that tries CoinMarketCap whether or not a key is configured
NextSourceIgnoringKey(source, key) ==
  CASE source = "A" -> "B"
    [] source = "B" -> "C"
    [] OTHER -> "none"

\* the source tried after `source` has failed; "none" ends the chain
NextSource(source, key) ==
  CASE source = "A" -> IF key THEN "B" ELSE "C"
    [] source = "B" -> "C"
    [] OTHER -> "none"

\* the copies of the server in the repository: src/server.js, and the three
\* in src/unnamed/part_000 (lines 1-525, 526-1212 and 1213-1470)
Builds == {"server.js", "part1", "part2", "part3"}

\* whether GET /api/bitcoin-price reads and writes Redis
UsesCache(b) == b # "server.js"

\* whether it does so under `if (redisClient)` and its own try/catch
GuardsCache(b) == b \in {"part1", "part2"}

\* axios.get calls one source gets: fetchWithRetry, or a bare axios.get
Attempts(b) == IF b = "server.js" THEN 1 ELSE retries

\* the source tried after `source` has failed.  In part1 the CoinMarketCap
\* branch passes its options where fetchWithRetry expects `retries`, so the
\* loop body never runs: no call is made and the branch throws.
ChainNext(b, source, key) == IF b = "part2" THEN NextSource(source, key) ELSE "none"

\* the sources the build has a branch for
Configured(b, key) ==
  CASE b = "part2" -> IF key THEN {"A", "B", "C"} ELSE {"A", "C"}
    [] b = "part1" -> IF key THEN {"A", "B"} ELSE {"A"}
    [] OTHER -> {"A"}

NoEntry == [present |-> FALSE, value |-> "", ttl |-> 0]

NoCalls == [src \in Sources |-> 0]

\* pc, source and i are where the handler stands; the other fields are
\* bookkeeping over the request: calls made per source, the sources that
\* have failed, the source whose price was taken, how the latest call
\* ended, how the cache write ended and the responses sent
JobIdle ==
  [pc |-> "idle", source |-> "none", i |-> 0, calls |-> NoCalls,
   hit |-> FALSE, expect |-> NaN,
   failed |-> {}, won |-> "none", last |-> "none", set |-> "none",
   sent |-> 0]

NoOut == [status |-> 0, defined |-> FALSE, price |-> NaN, warning |-> FALSE]

PriceAtRest ==
  /\ cache = NoEntry
  /\ job = JobIdle
  /\ out = NoOut
  /\ cachedNumber = NaN

\* "bitcoin_history" holds no entry
NoHistory == [present |-> FALSE, value |-> <<>>, ttl |-> 0]

\* pc and i are where the handler stands; the other fields are bookkeeping
\* over the request: the axios.get calls made, whether the cache answered,
\* how the upstream request ended ("ok" when fetchWithRetry returned the
\* price list), which cache call threw, whether the body was built in the
\* catch block, the time zone and the UTC date it ran in, and the responses
\* sent
HistoryIdle ==
  [pc |-> "idle", i |-> 0, calls |-> 0, hit |-> FALSE, upstream |-> "none",
   threw |-> "none", synthetic |-> FALSE, zone |-> "none", today |-> 0,
   sent |-> 0]

NoHistoryOut == [status |-> 0, body |-> <<>>, marked |-> FALSE]

HistoryAtRest ==
  /\ historyCache = NoHistory
  /\ historyJob = HistoryIdle
  /\ historyOut = NoHistoryOut

\* no token: a field that is undefined, a body without refreshToken
NoToken == [secret |-> "none", iat |-> 0, exp |-> 0]

NoAuth ==
  [route |-> "none", presented |-> NoToken, status |-> 0, code |-> "none",
   accessToken |-> NoToken, refreshToken |-> NoToken]

\* a registered account that has never logged in
SessionsAtRest ==
  /\ refreshToken = NoToken
  /\ clock = 0
  /\ logins = <<>>
  /\ authOut = NoAuth

----------------------------------------------------------------------------
(* JS numbers as IEEE-754 binary64 values: sign * m * 2^e with m a natural *)
(* of at most 53 binary digits.  A natural is kept as its digits in base   *)
(* 2^12, least significant first, without leading zeros.  Every operation  *)
(* computes the exact result and rounds it to the nearest representable    *)
(* value, ties to even.                                                    *)

mantissaBits == 53

limbBits == 12

Radix == 2^limbBits

\* drop the zero digits at the most significant end
RECURSIVE Trim(_)
Trim(a) ==
  IF a # <<>> /\ a[Len(a)] = 0 THEN Trim(SubSeq(a, 1, Len(a) - 1)) ELSE a

Limb(a, i) == IF 1 <= i /\ i <= Len(a) THEN a[i] ELSE 0

Rest(a) == IF a = <<>> THEN <<>> ELSE Tail(a)

RECURSIVE NatAdd(_, _, _)
NatAdd(a, b, carry) ==
  IF a = <<>> /\ b = <<>> THEN (IF carry = 0 THEN <<>> ELSE <<carry>>)
  ELSE LET sum == Limb(a, 1) + Limb(b, 1) + carry
       IN <<sum % Radix>> \o NatAdd(Rest(a), Rest(b), sum \div Radix)

\* a - b - borrow, for a >= b + borrow
RECURSIVE NatSub(_, _, _)
NatSub(a, b, borrow) ==
  IF a = <<>> THEN <<>>
  ELSE LET diff == a[1] - Limb(b, 1) - borrow
       IN <<(diff + Radix) % Radix>>
          \o NatSub(Tail(a), Rest(b), IF diff < 0 THEN 1 ELSE 0)

\* a * d + carry, for one digit d
RECURSIVE NatScale(_, _, _)
NatScale(a, d, carry) ==
  IF a = <<>> THEN (IF carry = 0 THEN <<>> ELSE <<carry>>)
  ELSE LET product == a[1] * d + carry
       IN <<product % Radix>> \o NatScale(Tail(a), d, product \div Radix)

RECURSIVE NatMul(_, _)
NatMul(a, b) ==
  IF a = <<>> \/ b = <<>> THEN <<>>
  ELSE Trim(NatAdd(NatScale(a, b[1], 0), <<0>> \o NatMul(a, Tail(b)), 0))

\* a < b
NatLess(a, b) ==
  IF Len(a) # Len(b) THEN Len(a) < Len(b)
  ELSE \E i \in 1..Len(a) :
         /\ a[i] < b[i]
         /\ \A j \in (i + 1)..Len(a) : a[j] = b[j]

\* the number of binary digits of a
BitLength(a) ==
  IF a = <<>> THEN 0
  ELSE (Len(a) - 1) * limbBits
       + CHOOSE k \in 1..limbBits : 2^(k - 1) <= a[Len(a)] /\ a[Len(a)] < 2^k

\* a * 2^k
ShiftLeft(a, k) ==
  IF a = <<>> THEN <<>>
  ELSE [i \in 1..(k \div limbBits) |-> 0] \o NatScale(a, 2^(k % limbBits), 0)

\* a \div 2^k
ShiftRight(a, k) ==
  LET limbs == k \div limbBits
      bits == k % limbBits
  IN Trim([i \in 1..(Len(a) - limbs) |->
             (Limb(a, i + limbs) \div 2^bits)
             + (Limb(a, i + limbs + 1) % 2^bits) * 2^(limbBits - bits)])

\* whether a % 2^k is not zero
LowBitsSet(a, k) ==
  \/ \E i \in 1..(k \div limbBits) : Limb(a, i) # 0
  \/ Limb(a, k \div limbBits + 1) % 2^(k % limbBits) # 0

\* the binary digit of a that weighs 2^k
BitAt(a, k) == (Limb(a, k \div limbBits + 1) \div 2^(k % limbBits)) % 2

\* the number of zero binary digits at the least significant end of a # 0
TrailingZeros(a) ==
  LET i == CHOOSE n \in 1..Len(a) : a[n] # 0 /\ \A j \in 1..(n - 1) : a[j] = 0
  IN (i - 1) * limbBits
     + CHOOSE k \in 0..(limbBits - 1) : a[i] % 2^k = 0 /\ a[i] % 2^(k + 1) # 0

Zero64 == [s |-> 1, m |-> <<>>, e |-> 0]

\* the one representation of a value: an odd mantissa, or Zero64
Canon(x) ==
  IF x.m = <<>> THEN Zero64
  ELSE LET zeros == TrailingZeros(x.m)
       IN [s |-> x.s, m |-> ShiftRight(x.m, zeros), e |-> x.e + zeros]

\* round an exact value to 53 significant binary digits, ties to even
RoundToNearestEven(x) ==
  LET d == BitLength(x.m) - mantissaBits
  IN IF d <= 0 THEN Canon(x)
     ELSE LET kept == ShiftRight(x.m, d)
              half == BitAt(x.m, d - 1) = 1
              sticky == LowBitsSet(x.m, d - 1)
              up == half /\ (sticky \/ kept[1] % 2 = 1)
          IN Canon([s |-> x.s,
                    m |-> IF up THEN NatAdd(kept, <<1>>, 0) ELSE kept,
                    e |-> x.e + d])

\* the exact sum of two values
ExactSum(x, y) ==
  LET e == IF x.e < y.e THEN x.e ELSE y.e
      a == ShiftLeft(x.m, x.e - e)
      b == ShiftLeft(y.m, y.e - e)
  IN IF x.s = y.s THEN [s |-> x.s, m |-> NatAdd(a, b, 0), e |-> e]
     ELSE IF NatLess(a, b) THEN [s |-> y.s, m |-> Trim(NatSub(b, a, 0)), e |-> e]
     ELSE IF a = b THEN Zero64
     ELSE [s |-> x.s, m |-> Trim(NatSub(a, b, 0)), e |-> e]

Negate(x) == IF x.m = <<>> THEN x ELSE [x EXCEPT !.s = -x.s]

\* x + y, x - y, x * y and x > y of the language
Plus(x, y) == RoundToNearestEven(ExactSum(x, y))

Minus(x, y) == Plus(x, Negate(y))

Times(x, y) ==
  RoundToNearestEven([s |-> IF x.m = <<>> \/ y.m = <<>> THEN 1 ELSE x.s * y.s,
                      m |-> NatMul(x.m, y.m), e |-> x.e + y.e])

Greater(x, y) ==
  LET diff == ExactSum(x, Negate(y)) IN diff.m # <<>> /\ diff.s = 1

\* the natural written in hexadecimal, most significant digit first
RECURSIVE FromHex(_)
FromHex(h) ==
  IF h = <<>> THEN <<>>
  ELSE NatAdd(NatScale(FromHex(SubSeq(h, 1, Len(h) - 1)), 16, 0), <<h[Len(h)]>>, 0)

Value64(hex, e) == Canon([s |-> 1, m |-> Trim(FromHex(hex)), e |-> e])

\* the binary64 value each decimal literal of the model denotes
Binary64(literal) ==
  CASE literal = "0.5" -> Value64(<<1>>, -1)
    [] literal = "0.25" -> Value64(<<1>>, -2)
    [] literal = "0.2" -> Value64(<<12,12,12,12,12,12,12,12,12,12,12,12,13>>, -54)
    [] literal = "0.15" -> Value64(<<1,3,3,3,3,3,3,3,3,3,3,3,3,3>>, -55)
    [] literal = "0.1" -> Value64(<<12,12,12,12,12,12,12,12,12,12,12,12,13>>, -55)
    [] literal = "0.05" -> Value64(<<12,12,12,12,12,12,12,12,12,12,12,12,13>>, -56)
    [] literal = "1" -> Value64(<<1>>, 0)
    [] literal = "3" -> Value64(<<3>>, 0)
    [] literal = "7" -> Value64(<<7>>, 0)
    [] literal = "20" -> Value64(<<1,4>>, 0)

Weight ==
  [k \in Keys |->
     CASE k = "essentials" -> Binary64("0.5")
       [] k = "savings" -> Binary64("0.2")
       [] k = "selfInvestment" -> Binary64("0.15")
       [] k = "charity" -> Binary64("0.05")
       [] k = "emergency" -> Binary64("0.1")]

NewUser64 ==
  [initialBudget |-> Zero64, allocations |-> [k \in Keys |-> Zero64],
   expenses |-> <<>>, investmentHistory |-> <<>>]

BudgetLiterals == {"3", "7", "20"}

AmountLiterals == {"0.1", "0.25", "1"}

\* lines 758-765 of postInitialBudget
addBudget(user, literal) ==
  LET newBudget == Binary64(literal)
  IN [user EXCEPT
        !.initialBudget = Plus(@, newBudget),
        !.allocations = [k \in Keys |-> Plus(@[k], Times(newBudget, Weight[k]))]]

\* lines 812-841 of postExpenses, for one of the five labels
addExpense(user, literal, category) ==
  LET amount == Binary64(literal)
      key == categoryKey(category)
  IN IF Greater(amount, user.allocations[key]) THEN user
     ELSE [user EXCEPT
             !.expenses = Append(@, [amount |-> literal, category |-> category]),
             !.initialBudget = Minus(@, amount),
             !.allocations[key] = Minus(@, amount)]

\* lines 859-869 of deleteExpense, for the last index
removeLastExpense(user) ==
  LET deletedExpense == user.expenses[Len(user.expenses)]
      amount == Binary64(deletedExpense.amount)
      key == categoryKey(deletedExpense.category)
  IN [user EXCEPT
        !.initialBudget = Plus(@, amount),
        !.allocations[key] = Plus(@, amount),
        !.expenses = SubSeq(@, 1, Len(@) - 1)]

InvestmentLiterals == {"0.05", "0.2"}

\* the allocation keys in the order of the schema, which Object.values follows
KeyOrder == <<"essentials", "savings", "selfInvestment", "charity", "emergency">>

RECURSIVE Reduce64(_)
\* values.reduce((sum, val) => sum + val, 0)
Reduce64(values) ==
  IF values = <<>> THEN Zero64
  ELSE Plus(Reduce64(SubSeq(values, 1, Len(values) - 1)), values[Len(values)])

\* the midpoint of the binary64 value of 0.1 and the next value above it
TenthHalfUp == Value64(<<3,3,3,3,3,3,3,3,3,3,3,3,3,5>>, -57)

\* amount / totalPortfolio > 0.1 for totalPortfolio > 0: the quotient rounds
\* to a value above 0.1 exactly when it lies above that midpoint (at the
\* midpoint it rounds to 0.1, whose mantissa is even)
ExceedsPortfolioShare64(amount, totalPortfolio) ==
  Greater(amount,
          [s |-> 1, m |-> NatMul(totalPortfolio.m, TenthHalfUp.m),
           e |-> totalPortfolio.e + TenthHalfUp.e])

\* lines 969-997 of postInvestments
addInvestment(user, literal) ==
  LET amount == Binary64(literal)
      investmentBudget ==
        Plus(user.allocations["selfInvestment"], user.allocations["emergency"])
      totalPortfolio ==
        Plus(Reduce64([i \in 1..Len(KeyOrder) |-> user.allocations[KeyOrder[i]]]),
             Reduce64([i \in 1..Len(user.investmentHistory) |->
                         Binary64(user.investmentHistory[i].amount)]))
  IN IF Greater(amount, investmentBudget) THEN user
     ELSE IF /\ Greater(totalPortfolio, Zero64)
             /\ ExceedsPortfolioShare64(amount, totalPortfolio)
     THEN user
     ELSE [user EXCEPT
             !.investmentHistory = Append(@, [amount |-> literal]),
             !.allocations["selfInvestment"] = Minus(@, amount)]

\* lines 1015-1017 of deleteInvestment, for the last index
removeLastInvestment(user) ==
  LET deletedInvestment == user.investmentHistory[Len(user.investmentHistory)]
      amount == Binary64(deletedInvestment.amount)
  IN [user EXCEPT
        !.allocations["selfInvestment"] = Plus(@, amount),
        !.investmentHistory = SubSeq(@, 1, Len(@) - 1)]

NoMark64 == [phase |-> "none", before |-> NewUser64, injections |-> 0]

NumbersAtRest ==
  /\ db64 = NewUser64
  /\ mark64 = NoMark64

InitLedger ==
  /\ db = NewUser
  /\ version = 0
  /\ req = [s \in Slots |-> Idle]
  /\ res = [s \in Slots |-> NoResponse]
  /\ base = NewUser
  /\ rounds = 0
  /\ mark = NoMark
  /\ injected = 0

Init ==
  /\ InitLedger
  /\ redisClient = "connected"
  /\ cmcKey = FALSE
  /\ build = "part2"
  /\ PriceAtRest
  /\ HistoryAtRest
  /\ NumbersAtRest
  /\ SessionsAtRest

IndexOfLast(d) ==
  CASE Len(d.expenses) = 1 -> "0"
    [] Len(d.expenses) = 2 -> "1"
    [] Len(d.expenses) = 3 -> "2"
    [] Len(d.expenses) = 4 -> "3"
    [] OTHER -> "-1"

\* mark follows a RecordExpense and the DeleteExpense of its index that
\* comes immediately after it
NextMark(op, arg, answer) ==
  IF answer.status = 200 /\ op = "postExpenses"
  THEN [phase |-> "recorded", before |-> db]
  ELSE IF /\ answer.status = 200 /\ op = "deleteExpense"
          /\ mark.phase = "recorded" /\ arg = IndexOfLast(db)
  THEN [phase |-> "undone", before |-> mark.before]
  ELSE NoMark

NextInjected(op, arg, answer) ==
  IF answer.status = 200 /\ op = "postInitialBudget" THEN injected + arg.initialBudget
  ELSE IF answer.status = 200 /\ op = "deleteBudget" THEN 0
  ELSE injected

\* the response as the copy sends it: src/server.js answers with the same
\* statuses but puts no `code` field in the body
Sent(answer) ==
  IF build \in {"server.js", "part1"} THEN [answer EXCEPT !.code = "none"] ELSE answer

\* one request served with nothing else in flight: the route's middleware,
\* findById, the handler body, save and the response
Serve(op, token, arg) ==
  \E gate \in {Gate(op, token, arg)} :
    \E o \in {IF gate # NoResponse
               THEN [db |-> db, version |-> 0, res |-> gate]
               ELSE Outcome(db, 0, db, 0, op, arg)} :
      /\ WithinBounds(o.db)
      /\ db' = o.db
      /\ res' = [res EXCEPT ![1] = Sent(o.res)]
      /\ mark' = NextMark(op, arg, o.res)
      /\ injected' = NextInjected(op, arg, o.res)
      /\ UNCHANGED <<version, req, base, rounds, priceVars, numberVars, historyVars, sessionVars>>

\* a request of any route that authMiddleware turns away
Unauthorized ==
  \E op \in Ops : \E token \in Tokens \ {"valid"} :
    Serve(op, token, CHOOSE arg \in Args(op) : TRUE)

PostInitialBudget ==
  \E body \in BudgetBodies : Serve("postInitialBudget", "valid", body)

PostExpenses ==
  \E body \in ExpenseBodies : Serve("postExpenses", "valid", body)

DeleteExpense ==
  \E index \in IndexParams : Serve("deleteExpense", "valid", index)

PostAllocations ==
  \E body \in AllocationBodies : Serve("postAllocations", "valid", body)

DeleteBudget == Serve("deleteBudget", "valid", NoBody)

PostInvestments ==
  \E body \in InvestmentBodies : Serve("postInvestments", "valid", body)

DeleteInvestment ==
  \E index \in IndexParams : Serve("deleteInvestment", "valid", index)

Next ==
  \/ Unauthorized
  \/ PostInitialBudget
  \/ PostExpenses
  \/ DeleteExpense
  \/ PostAllocations
  \/ DeleteBudget
  \/ PostInvestments
  \/ DeleteInvestment

Spec == Init /\ [][Next]_vars

\* the ledger without the administrative override POST /api/allocations
NextNoSet ==
  \/ PostInitialBudget
  \/ PostExpenses
  \/ DeleteExpense
  \/ DeleteBudget
  \/ PostInvestments
  \/ DeleteInvestment

SpecNoSet == Init /\ [][NextNoSet]_vars

\* money flowing in and out only: no override and no reset
NextFlow ==
  \/ PostInitialBudget
  \/ PostExpenses
  \/ DeleteExpense
  \/ PostInvestments
  \/ DeleteInvestment

SpecFlow == Init /\ [][NextFlow]_vars

\* either copy of the ledger routes
InitLedgerBuilds ==
  /\ InitLedger
  /\ build \in LedgerBuilds
  /\ redisClient = "connected"
  /\ cmcKey = FALSE
  /\ PriceAtRest
  /\ HistoryAtRest
  /\ NumbersAtRest
  /\ SessionsAtRest

\* requests at the edges of what the validator chains let through: a zero
\* amount, a zero price, a type of the caller's own, allocation maps with
\* one negative value and with five different values
ZeroExpenseBodies ==
  {[amount |-> a, category |-> "Tieu dung thiet yeu", purpose |-> "p",
    location |-> "l"] : a \in {0, 3}}

OtherInvestmentBodies ==
  {[amount |-> 0, price |-> 2, type |-> "Bitcoin ETF"],
   [amount |-> 1, price |-> 0, type |-> "Bitcoin ETF"],
   [amount |-> 1, price |-> 2, type |-> "Dogecoin"]}

OtherAllocationBodies ==
  {[k \in Keys |-> IF k = "charity" THEN -1 ELSE 3],
   [k \in Keys |->
      CASE k = "essentials" -> 5
        [] k = "savings" -> 4
        [] k = "selfInvestment" -> 3
        [] k = "charity" -> 2
        [] k = "emergency" -> 1]}

PostExpensesZero ==
  \E body \in ZeroExpenseBodies : Serve("postExpenses", "valid", body)

PostInvestmentsOther ==
  \E body \in OtherInvestmentBodies : Serve("postInvestments", "valid", body)

PostAllocationsOther ==
  \E body \in OtherAllocationBodies : Serve("postAllocations", "valid", body)

NextBuilds ==
  \/ PostInitialBudget
  \/ PostExpensesZero
  \/ DeleteExpense
  \/ PostAllocationsOther
  \/ DeleteBudget
  \/ PostInvestments
  \/ PostInvestmentsOther
  \/ DeleteInvestment

SpecBuilds == InitLedgerBuilds /\ [][NextBuilds]_vars

\* the copy at part_000 1-525: the ledger routes of src/server.js, with its
\* own POST /api/investments
InitPart1 ==
  /\ InitLedger
  /\ build = "part1"
  /\ redisClient = "connected"
  /\ cmcKey = FALSE
  /\ PriceAtRest
  /\ HistoryAtRest
  /\ NumbersAtRest
  /\ SessionsAtRest

SpecPart1 == InitPart1 /\ [][NextBuilds]_vars

\* the routes that record and delete, on either copy
NextRecords ==
  \/ PostInitialBudget
  \/ PostExpenses
  \/ PostExpensesZero
  \/ DeleteExpense
  \/ PostInvestments
  \/ DeleteInvestment

SpecRecords == InitLedgerBuilds /\ [][NextRecords]_vars

----------------------------------------------------------------------------
(* DELETE /api/account and the routes of an account whose document is     *)
(* gone.  authMiddleware verifies the token only, so the token of a        *)
(* deleted account still passes it.                                        *)

\* what findById answers for an account without a document
NoDocument == [deleted |-> TRUE]

\* a delete that rejects when nothing is stored
findByIdAndDeleteOrFail(stored) ==
  [threw |-> stored = NoDocument, stored |-> NoDocument]

\* User.findByIdAndDelete(id): null, not an error, when nothing is stored
findByIdAndDelete(stored) == [threw |-> FALSE, stored |-> NoDocument]

ReadPaths == {"initialBudget", "expenses", "allocations", "investmentHistory"}

\* GET of one part of the ledger: `user.<path>` throws on null
getLedger(user, path) ==
  IF user = NoDocument
  THEN [status |-> 500, code |-> "SERVER_ERROR", body |-> NoBody]
  ELSE [status |-> 200, code |-> "OK", body |-> user[path]]

DeleteAccount ==
  /\ \E r \in {findByIdAndDelete(db)} :
       /\ db' = r.stored
       /\ res' = [res EXCEPT ![1] =
                    Sent(IF r.threw THEN [status |-> 500, code |-> "SERVER_ERROR"]
                         ELSE [status |-> 200, code |-> "OK"])]
       /\ refreshToken' = IF r.threw THEN refreshToken ELSE NoToken
  /\ UNCHANGED <<version, req, base, rounds, mark, injected, priceVars, numberVars, historyVars,
                 clock, logins, authOut>>

GetLedger ==
  /\ \E path \in ReadPaths : res' = [res EXCEPT ![1] = Sent(getLedger(db, path))]
  /\ UNCHANGED <<db, version, req, base, rounds, mark, injected, priceVars, numberVars, historyVars, sessionVars>>

\* a ledger route of an account without a document: the first use of the
\* null `user` throws and the catch block answers 500
ServeDeleted ==
  /\ db = NoDocument
  /\ \E op \in Ops : \E arg \in Args(op) :
       \E gate \in {Gate(op, "valid", arg)} :
         res' = [res EXCEPT ![1] =
                   Sent(IF gate # NoResponse THEN gate
                        ELSE [status |-> 500, code |-> "SERVER_ERROR"])]
  /\ UNCHANGED <<db, version, req, base, rounds, mark, injected, priceVars, numberVars, historyVars, sessionVars>>

ServeStored ==
  /\ db # NoDocument
  /\ \/ PostInitialBudget
     \/ PostExpensesZero
     \/ PostInvestments
     \/ DeleteExpense
     \/ DeleteInvestment

NextAccount == ServeStored \/ DeleteAccount \/ GetLedger \/ ServeDeleted

SpecAccount == InitLedgerBuilds /\ [][NextAccount]_vars

----------------------------------------------------------------------------
(* POST /api/login and POST /api/refresh-token of the account.  A token is *)
(* the secret it is signed with and the payload jwt.sign writes: the id    *)
(* (one account here), iat and exp.  HS256 has no randomness, so the same  *)
(* payload under the same secret is the same string.                      *)

\* expiresIn: '15m' and expiresIn: '7d', in seconds
accessLifetime == 900

refreshLifetime == 604800

MaxLogins == 3

\* seconds that pass one by one after a start or a jump of the clock
MaxSeconds == 2

MaxClock == 604802

\* jwt.sign({ id: user._id }, secret, { expiresIn }) in the second `now`
jwtSign(secret, lifetime, now) ==
  [secret |-> secret, iat |-> now, exp |-> now + lifetime]

\* jwt.verify(token, secret): TRUE when it returns the payload, FALSE when
\* it throws (signature of another secret, or now >= exp)
jwtVerify(token, secret, now) == token.secret = secret /\ now < token.exp

\* a string that no jwt.sign of this server has produced
ForgedToken == [secret |-> "other", iat |-> 0, exp |-> refreshLifetime]

\* the body of POST /api/login: a field missing, a wrong password, or the
\* account's credentials
LoginKinds == {"invalid", "wrong", "right"}

\* POST /api/login: the response, and the refreshToken field afterwards
login(user, stored, kind, saveThrows, now) ==
  IF kind = "invalid"
  THEN [status |-> 400, code |-> "VALIDATION_ERROR", accessToken |-> NoToken,
        refreshToken |-> NoToken, stored |-> stored]
  ELSE IF user = NoDocument \/ kind = "wrong"
  THEN [status |-> 401, code |-> "INVALID_CREDENTIALS", accessToken |-> NoToken,
        refreshToken |-> NoToken, stored |-> stored]
  ELSE IF saveThrows
  THEN [status |-> 500, code |-> "SERVER_ERROR", accessToken |-> NoToken,
        refreshToken |-> NoToken, stored |-> stored]
  ELSE [status |-> 200, code |-> "OK",
        accessToken |-> jwtSign("access", accessLifetime, now),
        refreshToken |-> jwtSign("refresh", refreshLifetime, now),
        stored |-> jwtSign("refresh", refreshLifetime, now)]

\* a handler that checks the signature and the account only
refreshTokenRouteAnyVerified(user, stored, token, now) ==
  IF token = NoToken
  THEN [status |-> 401, code |-> "NO_REFRESH_TOKEN", accessToken |-> NoToken]
  ELSE IF ~jwtVerify(token, "refresh", now) \/ user = NoDocument
  THEN [status |-> 401, code |-> "INVALID_REFRESH_TOKEN", accessToken |-> NoToken]
  ELSE [status |-> 200, code |-> "OK",
        accessToken |-> jwtSign("access", accessLifetime, now)]

\* POST /api/refresh-token
refreshTokenRoute(user, stored, token, now) ==
  IF token = NoToken
  THEN [status |-> 401, code |-> "NO_REFRESH_TOKEN", accessToken |-> NoToken]
  ELSE IF ~jwtVerify(token, "refresh", now)
  THEN [status |-> 401, code |-> "INVALID_REFRESH_TOKEN", accessToken |-> NoToken]
  ELSE IF user = NoDocument \/ stored # token
  THEN [status |-> 401, code |-> "INVALID_REFRESH_TOKEN", accessToken |-> NoToken]
  ELSE [status |-> 200, code |-> "OK",
        accessToken |-> jwtSign("access", accessLifetime, now)]

Login ==
  /\ \E kind \in LoginKinds : \E saveThrows \in BOOLEAN :
       LET r == login(db, refreshToken, kind, saveThrows, clock)
       IN /\ saveThrows => kind = "right" /\ db # NoDocument
          /\ r.status = 200 => Len(logins) < MaxLogins
          /\ refreshToken' = r.stored
          /\ logins' = IF r.status = 200 THEN Append(logins, r.refreshToken)
                       ELSE logins
          /\ authOut' = [route |-> "login", presented |-> NoToken,
                         status |-> r.status, code |-> r.code,
                         accessToken |-> r.accessToken,
                         refreshToken |-> r.refreshToken]
  /\ UNCHANGED <<clock, ledgerVars, priceVars, numberVars, historyVars>>

\* the refresh tokens a client can send: none, one a login has answered
\* with, or one of its own making
Presentable == {NoToken, ForgedToken} \cup {logins[k] : k \in DOMAIN logins}

Refresh(token) ==
  /\ LET r == refreshTokenRoute(db, refreshToken, token, clock)
     IN authOut' = [route |-> "refresh-token", presented |-> token,
                    status |-> r.status, code |-> r.code,
                    accessToken |-> r.accessToken, refreshToken |-> NoToken]
  /\ UNCHANGED <<refreshToken, clock, logins, ledgerVars, priceVars, numberVars, historyVars>>

RefreshToken == \E token \in Presentable : Refresh(token)

\* time passes: a second, or the lifetime of a refresh token
Tick ==
  /\ \E d \in {1, refreshLifetime} :
       /\ d = 1 => clock % refreshLifetime < MaxSeconds
       /\ clock + d <= MaxClock
       /\ clock' = clock + d
  /\ UNCHANGED <<refreshToken, logins, authOut, ledgerVars, priceVars, numberVars, historyVars>>

NextSessions == Login \/ RefreshToken \/ DeleteAccount \/ Tick

SpecSessions == Init /\ [][NextSessions]_vars

----------------------------------------------------------------------------
(* Overlapping requests of one account.  A handler awaits findById and     *)
(* later save(); between the two, other requests run.  A round starts when *)
(* a request arrives while nothing is in flight and ends when every        *)
(* request of the round has been answered.                                 *)

RoundOver == \A t \in Slots : req[t].pc # "loaded"

\* the route up to and including findById
FindById(s) ==
  \E op \in Ops : \E arg \in RaceArgs(op) :
    /\ Gate(op, "valid", arg) = NoResponse
    /\ IF RoundOver
       THEN /\ rounds < MaxRounds
            /\ rounds' = rounds + 1
            /\ base' = db
            /\ version' = 0
            /\ req' = [t \in Slots |->
                         IF t = s
                         THEN [pc |-> "loaded", op |-> op, arg |-> arg,
                               user |-> db, v |-> 0]
                         ELSE Idle]
            /\ res' = [t \in Slots |-> NoResponse]
       ELSE /\ req[s].pc = "idle"
            /\ req' = [req EXCEPT ![s] =
                         [pc |-> "loaded", op |-> op, arg |-> arg,
                          user |-> db, v |-> version]]
            /\ UNCHANGED <<res, base, version, rounds>>
    /\ UNCHANGED <<db, mark, injected, priceVars, numberVars, historyVars, sessionVars>>

\* the handler body after findById: checks, changes, save() and the response
Resume(s) ==
  /\ req[s].pc = "loaded"
  /\ \E o \in {Outcome(db, version, req[s].user, req[s].v, req[s].op, req[s].arg)} :
       /\ WithinBounds(o.db)
       /\ db' = o.db
       /\ version' = o.version
       /\ res' = [res EXCEPT ![s] = Sent(o.res)]
  /\ req' = [req EXCEPT ![s].pc = "done"]
  /\ UNCHANGED <<base, rounds, mark, injected, priceVars, numberVars, historyVars, sessionVars>>

NextRace == \E s \in Slots : FindById(s) \/ Resume(s)

SpecRace == Init /\ [][NextRace]_vars

\* save() rejects (the connection is lost): the catch block answers 500 and
\* nothing is written
SaveFails(s) ==
  /\ req[s].pc = "loaded"
  /\ Handle(req[s].op, req[s].arg, req[s].user).save
  /\ res' = [res EXCEPT ![s] = Sent([status |-> 500, code |-> "SERVER_ERROR"])]
  /\ req' = [req EXCEPT ![s].pc = "done"]
  /\ UNCHANGED <<db, version, base, rounds, mark, injected, priceVars, numberVars, historyVars, sessionVars>>

\* the request ends between findById and save(): the changes made to the
\* loaded document are dropped with it
Abandon(s) ==
  /\ req[s].pc = "loaded"
  /\ req' = [req EXCEPT ![s].pc = "done"]
  /\ UNCHANGED <<db, version, res, base, rounds, mark, injected, priceVars, numberVars, historyVars, sessionVars>>

NextCommit ==
  \E s \in Slots : FindById(s) \/ Resume(s) \/ SaveFails(s) \/ Abandon(s)

SpecCommit == Init /\ [][NextCommit]_vars

----------------------------------------------------------------------------
(* GET /api/bitcoin-price, one action per await.                           *)

InitPrice ==
  /\ InitLedger
  /\ redisClient \in {"connected", "null"}
  /\ cmcKey \in BOOLEAN
  /\ build = "part2"
  /\ PriceAtRest
  /\ HistoryAtRest
  /\ NumbersAtRest
  /\ SessionsAtRest

\* any copy of the server; part3 creates its client unconditionally
InitPriceBuilds ==
  /\ InitLedger
  /\ build \in Builds
  /\ redisClient \in {"connected", "null"}
  /\ build = "part3" => redisClient = "connected"
  /\ cmcKey \in BOOLEAN
  /\ PriceAtRest
  /\ HistoryAtRest
  /\ NumbersAtRest
  /\ SessionsAtRest

\* res.status(500).json({ error: ... }): no price field
ErrorAnswer ==
  [status |-> 500, defined |-> FALSE, price |-> NaN, warning |-> FALSE]

\* the request arrives and redisClient.get('bitcoin_price') returns or throws
GetBitcoinPrice ==
  /\ job.pc # "fetch"
  /\ \E getThrows \in BOOLEAN :
       /\ getThrows => UsesCache(build) /\ redisClient = "connected"
       /\ IF /\ UsesCache(build) /\ redisClient = "connected" /\ ~getThrows
             /\ cache.present /\ cache.value # ""
          THEN /\ job' = [JobIdle EXCEPT !.pc = "done", !.hit = TRUE,
                                       !.expect = cachedNumber, !.sent = 1]
               /\ out' = [status |-> 200, defined |-> TRUE,
                          price |-> parseFloat(cache.value), warning |-> FALSE]
          ELSE IF getThrows /\ ~GuardsCache(build)
          THEN /\ job' = [JobIdle EXCEPT !.pc = "done", !.sent = 1]
               /\ out' = ErrorAnswer
          ELSE /\ job' = [JobIdle EXCEPT !.pc = "fetch", !.source = "A"]
               /\ out' = NoOut
  /\ UNCHANGED <<redisClient, cmcKey, build, cache, cachedNumber, ledgerVars, numberVars, historyVars, sessionVars>>

\* `if (i === retries - 1) throw error` of a fetchWithRetry that never gives up
LastAttemptNever(b, i) == FALSE

\* `if (i === retries - 1) throw error`
LastAttempt(b, i) == i = Attempts(b) - 1

\* res.json({ price })
PriceAnswer(e) ==
  [status |-> 200, defined |-> e.defined, price |-> e.price, warning |-> FALSE]

\* the last branch answering with status 500
FallbackAnswerAsError(price) ==
  [status |-> 500, defined |-> TRUE, price |-> Num(price), warning |-> TRUE]

\* res.json({ price: fallbackPrice, warning: ... })
FallbackAnswer(price) ==
  [status |-> 200, defined |-> TRUE, price |-> Num(price), warning |-> TRUE]

\* the response once every branch of the chain has failed
ExhaustedAnswer(b) ==
  CASE b = "part2" -> FallbackAnswer(fallbackPrice)
    [] b = "part1" -> [FallbackAnswer(fallbackPrice) EXCEPT !.warning = FALSE]
    [] OTHER -> ErrorAnswer

\* one axios.get for the current source, and everything the handler does
\* until its next await or its response
Fetch ==
  /\ job.pc = "fetch"
  /\ \E outcome \in Outcomes(job.source) : \E setThrows \in BOOLEAN :
       LET e == Extract(job.source, outcome.body)
           failed == IF outcome.kind = "ok" THEN e.threw ELSE LastAttempt(build, job.i)
           next == ChainNext(build, job.source, cmcKey)
           writes == UsesCache(build) /\ redisClient = "connected"
           written == writes /\ e.defined /\ ~setThrows
           called == [job EXCEPT
                        !.calls[job.source] = @ + 1,
                        !.last = IF outcome.kind # "ok" THEN outcome.kind
                                 ELSE IF e.threw THEN "malformed" ELSE "ok",
                        !.failed = IF ~failed THEN @
                                   ELSE IF next = "none"
                                   THEN Configured(build, cmcKey)
                                   ELSE @ \cup {job.source}]
       IN IF outcome.kind = "ok" /\ ~e.threw
          THEN /\ setThrows => writes
               /\ cache' = IF written
                           THEN [present |-> TRUE, value |-> toString(e.price),
                                 ttl |-> ttlSeconds]
                           ELSE cache
               /\ cachedNumber' = IF written THEN e.price ELSE cachedNumber
               /\ out' = IF writes /\ ~written /\ ~GuardsCache(build)
                         THEN ErrorAnswer
                         ELSE PriceAnswer(e)
               /\ job' = [called EXCEPT
                            !.pc = "done", !.won = job.source, !.sent = @ + 1,
                            !.set = IF ~writes THEN "skipped"
                                    ELSE IF written THEN "ok" ELSE "threw"]
          ELSE /\ ~setThrows
               /\ UNCHANGED <<cache, cachedNumber>>
               /\ IF ~failed
                  THEN /\ job' = [called EXCEPT !.i = @ + 1]
                       /\ out' = out
                  ELSE IF next # "none"
                  THEN /\ job' = [called EXCEPT !.source = next, !.i = 0]
                       /\ out' = out
                  ELSE /\ job' = [called EXCEPT !.pc = "done", !.sent = @ + 1]
                       /\ out' = ExhaustedAnswer(build)
  /\ UNCHANGED <<redisClient, cmcKey, build, ledgerVars, numberVars, historyVars, sessionVars>>

\* Redis drops the entry when its TTL has run out
Expire ==
  /\ cache.present
  /\ cache' = NoEntry
  /\ UNCHANGED <<redisClient, cmcKey, build, job, out, cachedNumber, ledgerVars, numberVars, historyVars, sessionVars>>

NextPrice == GetBitcoinPrice \/ Fetch \/ Expire

SpecPrice == InitPrice /\ [][NextPrice]_vars

SpecPriceBuilds == InitPriceBuilds /\ [][NextPrice]_vars

\* every axios.get settles: it is answered, fails, or times out after 5 s
SpecPriceLive == InitPrice /\ [][NextPrice]_vars /\ WF_vars(Fetch)

----------------------------------------------------------------------------
(* GET /api/bitcoin-history.  A date is the number of its day; a price is  *)
(* n hundredths of a dollar times scale/10000, so that the fallback price  *)
(* times its random factor stays exact.                                    *)

historyDays == 7

Scaled(n, scale) == [n |-> n, scale |-> scale]

\* seven draws of Math.random() in thousandths, between the smallest value
\* and the largest below 1
HistoryRandoms ==
  {[k \in 1..historyDays |-> 0], [k \in 1..historyDays |-> 999],
   [k \in 1..historyDays |-> IF k % 2 = 0 THEN 250 ELSE 999]}

\* the server's clock when the catch block runs: local day and minute of day
LocalDays == {10, 11}

Minutes == {30, 1170}

\* the time zone of the process.  New York leaves daylight saving time on
\* day 8, the others keep one offset.
Zones == {"UTC", "Asia/Ho_Chi_Minh", "America/New_York"}

\* minutes east of UTC in force on a local day
Offset(zone, day) ==
  CASE zone = "Asia/Ho_Chi_Minh" -> 420
    [] zone = "America/New_York" -> IF day < 8 THEN -240 ELSE -300
    [] OTHER -> 0

\* date.toISOString().split('T')[0] of the local wall-clock time: the UTC date
UTCDate(zone, day, minute) == (day * 1440 + minute - Offset(zone, day)) \div 1440

\* 117783.89 * (1 + (Math.random() - 0.5) * 0.1), random in thousandths
FallbackEntryPrice(random) == Scaled(fallbackPrice, 10000 + (random - 500))

\* the catch block: i = 6 .. 0, date.setDate(today.getDate() - i) keeps the
\* local time of day
FallbackHistory(zone, day, minute, random) ==
  [k \in 1..historyDays |->
     [date |-> UTCDate(zone, day - (historyDays - k), minute),
      price |-> FallbackEntryPrice(random[k])]]

\* data of CoinGecko's market_chart: no prices field, or [timestamp, price]
\* pairs (timestamps in minutes)
HistoryBodies ==
  {[t |-> "noprices", prices |-> <<>>],
   [t |-> "prices", prices |-> <<[ts |-> 12970, price |-> 12500000],
                                 [ts |-> 14410, price |-> 12500050]>>]}

HistoryOutcomes ==
  {[kind |-> k, body |-> [t |-> "none", prices |-> <<>>]] :
     k \in {"429", "timeout", "error"}}
  \cup {[kind |-> "ok", body |-> b] : b \in HistoryBodies}

\* data.prices.map(([timestamp, price]) => ({ date: ..., price }))
MapPrices(prices) ==
  [k \in DOMAIN prices |->
     [date |-> prices[k].ts \div 1440, price |-> Scaled(prices[k].price, 10000)]]

\* JSON.stringify(prices) and JSON.parse(cachedHistory): numbers are
\* written by Number.prototype.toString and read back
JSONstringify(prices) ==
  [k \in DOMAIN prices |->
     [date |-> prices[k].date, price |-> toString(Num(prices[k].price.n))]]

JSONparse(text) ==
  [k \in DOMAIN text |->
     [date |-> text[k].date, price |-> Scaled(parseFloat(text[k].price).n, 10000)]]

\* whether the handler wraps its Redis calls in a try/catch of their own
GuardsHistoryCache(b) == b = "part2"

\* res.json(prices): the bare array
HistoryAnswer(prices) == [status |-> 200, body |-> prices, marked |-> FALSE]

\* a catch block that stores the series it has built
AnswerFallbackCached(j) ==
  \E zone \in Zones : \E day \in LocalDays : \E minute \in Minutes :
  \E random \in HistoryRandoms :
    LET prices == FallbackHistory(zone, day, minute, random)
    IN /\ historyCache' =
            IF redisClient = "connected"
            THEN [present |-> TRUE,
                  value |-> [k \in DOMAIN prices |->
                               [date |-> prices[k].date, price |-> "125000"]],
                  ttl |-> ttlSeconds]
            ELSE historyCache
       /\ historyOut' = HistoryAnswer(prices)
       /\ historyJob' = [j EXCEPT !.pc = "done", !.synthetic = TRUE,
                                  !.zone = zone,
                                  !.today = UTCDate(zone, day, minute),
                                  !.sent = @ + 1]

\* the outer catch block answering for the request j; it makes no Redis call
AnswerFallback(j) ==
  \E zone \in Zones : \E day \in LocalDays : \E minute \in Minutes :
  \E random \in HistoryRandoms :
    /\ historyCache' = historyCache
    /\ historyOut' = HistoryAnswer(FallbackHistory(zone, day, minute, random))
    /\ historyJob' = [j EXCEPT !.pc = "done", !.synthetic = TRUE,
                               !.zone = zone,
                               !.today = UTCDate(zone, day, minute),
                               !.sent = @ + 1]

GetBitcoinHistory ==
  /\ historyJob.pc # "fetch"
  /\ \E getThrows \in BOOLEAN :
       /\ getThrows => redisClient = "connected"
       /\ IF redisClient = "connected" /\ ~getThrows /\ historyCache.present
          THEN /\ historyCache' = historyCache
               /\ historyOut' = HistoryAnswer(JSONparse(historyCache.value))
               /\ historyJob' = [HistoryIdle EXCEPT !.pc = "done", !.hit = TRUE,
                                                   !.sent = 1]
          ELSE IF getThrows /\ ~GuardsHistoryCache(build)
          THEN AnswerFallback([HistoryIdle EXCEPT !.threw = "get"])
          ELSE /\ historyCache' = historyCache
               /\ historyOut' = NoHistoryOut
               /\ historyJob' = [HistoryIdle EXCEPT
                                   !.pc = "fetch",
                                   !.threw = IF getThrows THEN "get" ELSE "none"]
  /\ UNCHANGED <<ledgerVars, priceVars, numberVars, sessionVars>>

\* one axios.get of fetchWithRetry and what follows it
FetchHistory ==
  /\ historyJob.pc = "fetch"
  /\ \E outcome \in HistoryOutcomes : \E setThrows \in BOOLEAN :
       LET called == [historyJob EXCEPT !.calls = @ + 1]
           writes == redisClient = "connected"
           prices == MapPrices(outcome.body.prices)
       IN IF outcome.kind = "ok"
          THEN IF outcome.body.t = "noprices"
               THEN /\ ~setThrows
                    /\ AnswerFallback([called EXCEPT !.upstream = "malformed"])
               ELSE /\ setThrows => writes
                    /\ IF setThrows /\ ~GuardsHistoryCache(build)
                       THEN AnswerFallback([called EXCEPT !.upstream = "ok",
                                                        !.threw = "set"])
                       ELSE /\ historyCache' =
                                 IF writes /\ ~setThrows
                                 THEN [present |-> TRUE,
                                       value |-> JSONstringify(prices),
                                       ttl |-> ttlSeconds]
                                 ELSE historyCache
                            /\ historyOut' = HistoryAnswer(prices)
                            /\ historyJob' =
                                 [called EXCEPT
                                    !.pc = "done", !.upstream = "ok",
                                    !.threw = IF setThrows THEN "set" ELSE @,
                                    !.sent = @ + 1]
          ELSE /\ ~setThrows
               /\ IF historyJob.i = retries - 1
                  THEN AnswerFallback([called EXCEPT !.upstream = "failed"])
                  ELSE /\ historyCache' = historyCache
                       /\ historyJob' = [called EXCEPT !.i = @ + 1]
                       /\ historyOut' = historyOut
  /\ UNCHANGED <<ledgerVars, priceVars, numberVars, sessionVars>>

\* Redis drops the entry when its TTL has run out
ExpireHistory ==
  /\ historyCache.present
  /\ historyCache' = NoHistory
  /\ UNCHANGED <<historyJob, historyOut, ledgerVars, priceVars, numberVars, sessionVars>>

NextHistory == GetBitcoinHistory \/ FetchHistory \/ ExpireHistory

SpecHistory == InitPriceBuilds /\ [][NextHistory]_vars

\* both price endpoints of one server.  The two handlers share no state
\* (each has its own Redis key), so they are exercised one per run: a
\* handler serves requests only while the other is at rest.
NextCaches ==
  \/ HistoryAtRest /\ GetBitcoinPrice
  \/ HistoryAtRest /\ Fetch
  \/ HistoryAtRest /\ Expire
  \/ PriceAtRest /\ GetBitcoinHistory
  \/ PriceAtRest /\ FetchHistory
  \/ PriceAtRest /\ ExpireHistory

SpecCaches == InitPriceBuilds /\ [][NextCaches]_vars

----------------------------------------------------------------------------
(* InjectBudget, RecordExpense and DeleteExpense with the arithmetic of    *)
(* the language, one accepted request after another.                      *)

MaxInjections == 2

MaxExpenses64 == 2

InjectBudget64 ==
  /\ mark64.injections < MaxInjections
  /\ \E literal \in BudgetLiterals :
       db64' = addBudget(db64, literal)
  /\ mark64' = [NoMark64 EXCEPT !.injections = mark64.injections + 1]
  /\ UNCHANGED <<ledgerVars, priceVars, historyVars, sessionVars>>

RecordExpense64 ==
  /\ Len(db64.expenses) < MaxExpenses64
  /\ \E literal \in AmountLiterals : \E category \in Labels :
       \E user \in {addExpense(db64, literal, category)} :
         /\ user # db64
         /\ db64' = user
  /\ mark64' = [mark64 EXCEPT !.phase = "recorded", !.before = db64]
  /\ UNCHANGED <<ledgerVars, priceVars, historyVars, sessionVars>>

DeleteExpense64 ==
  /\ db64.expenses # <<>>
  /\ db64' = removeLastExpense(db64)
  /\ mark64' = IF mark64.phase = "recorded"
               THEN [mark64 EXCEPT !.phase = "undone"]
               ELSE [mark64 EXCEPT !.phase = "none", !.before = NewUser64]
  /\ UNCHANGED <<ledgerVars, priceVars, historyVars, sessionVars>>

NextNumbers == InjectBudget64 \/ RecordExpense64 \/ DeleteExpense64

SpecNumbers == Init /\ [][NextNumbers]_vars

MaxInvestments64 == 1

RecordInvestment64 ==
  /\ Len(db64.investmentHistory) < MaxInvestments64
  /\ \E literal \in InvestmentLiterals :
       \E user \in {addInvestment(db64, literal)} :
         /\ user # db64
         /\ db64' = user
  /\ mark64' = [mark64 EXCEPT !.phase = "invested", !.before = db64]
  /\ UNCHANGED <<ledgerVars, priceVars, historyVars, sessionVars>>

DeleteInvestment64 ==
  /\ db64.investmentHistory # <<>>
  /\ db64' = removeLastInvestment(db64)
  /\ mark64' = IF mark64.phase = "invested"
               THEN [mark64 EXCEPT !.phase = "divested"]
               ELSE [mark64 EXCEPT !.phase = "none", !.before = NewUser64]
  /\ UNCHANGED <<ledgerVars, priceVars, historyVars, sessionVars>>

\* an accepted expense of the category that selfInvestment pays for
RecordSelfExpense64 ==
  /\ Len(db64.expenses) < MaxExpenses64
  /\ \E literal \in AmountLiterals :
       \E user \in {addExpense(db64, literal, "Dau tu ban than")} :
         /\ user # db64
         /\ db64' = user
  /\ mark64' = [mark64 EXCEPT !.phase = "recorded", !.before = db64]
  /\ UNCHANGED <<ledgerVars, priceVars, historyVars, sessionVars>>

NextInvestments64 ==
  \/ InjectBudget64
  \/ RecordSelfExpense64
  \/ RecordInvestment64
  \/ DeleteInvestment64

SpecInvestments64 == Init /\ [][NextInvestments64]_vars

----------------------------------------------------------------------------
(* GET /api/investment-analysis.  Amounts and entry prices are whole       *)
(* dollars, the current price is in hundredths of a dollar, values are in  *)
(* two-hundredths of a dollar and roi in hundredths of a percent.  A JS    *)
(* number is a finite value, an infinity or NaN.                          *)

Finite(v) == [k |-> "num", v |-> v]

Infinity(sign) == [k |-> IF sign < 0 THEN "-inf" ELSE "inf", v |-> 0]

NotANumber == [k |-> "nan", v |-> 0]

\* x + y of the language
Add(x, y) ==
  IF x.k = "nan" \/ y.k = "nan" THEN NotANumber
  ELSE IF x.k = "num" /\ y.k = "num" THEN Finite(x.v + y.v)
  ELSE IF x.k = "num" THEN y
  ELSE IF y.k = "num" \/ x.k = y.k THEN x
  ELSE NotANumber

\* the investments a ledger can hold: Bitcoin-linked or not, an entry price
\* of 0 and an amount of 0 included
AnalysisInvestments ==
  {[amount |-> 1, price |-> 2, type |-> "Bitcoin ETF"],
   [amount |-> 3, price |-> 1, type |-> "Bitcoin ETF"],
   [amount |-> 0, price |-> 2, type |-> "Bitcoin ETF"],
   [amount |-> 1, price |-> 0, type |-> "Bitcoin ETF"],
   [amount |-> 3, price |-> 2, type |-> "Dogecoin"]}

MaxAnalysed == 2

AnalysisHistories ==
  UNION {[1..n -> AnalysisInvestments] : n \in 0..MaxAnalysed}

\* String.prototype.toLowerCase over the modelled types
toLowerCase(type) ==
  CASE type = "Bitcoin ETF" -> "bitcoin etf"
    [] type = "Dogecoin" -> "dogecoin"
    [] OTHER -> type

\* str.includes('bitcoin')
includesBitcoin(str) == str \in {"bitcoin etf", "bitcoin"}

\* what fetchWithRetry of the CoinGecko URL ends in: a body, or a throw
\* after the last attempt
AnalysisOutcomes ==
  {[kind |-> "error", body |-> NoData]}
  \cup {[kind |-> "ok", body |-> b] : b \in QuoteBodies}

\* lines 1157-1163: priceData.bitcoin.usd, or 117783.89 when the fetch or
\* the property access throws
currentPriceOf(outcome) ==
  IF outcome.kind # "ok" \/ outcome.body.t = "noquote" THEN Finite(fallbackPrice)
  ELSE IF outcome.body.t = "undefined" THEN NotANumber
  ELSE Finite(outcome.body.n)

\* (inv.amount / inv.price) * currentPrice
MarkToMarket(inv, currentPrice) ==
  IF currentPrice.k = "nan" THEN NotANumber
  ELSE IF inv.price = 0
  THEN IF inv.amount = 0 \/ currentPrice.v = 0 THEN NotANumber
       ELSE Infinity(currentPrice.v)
  ELSE Finite((2 * inv.amount * currentPrice.v) \div inv.price)

RECURSIVE totalInvestedOf(_)
\* investmentHistory.reduce((sum, inv) => sum + inv.amount, 0)
totalInvestedOf(h) ==
  IF h = <<>> THEN 0
  ELSE totalInvestedOf(SubSeq(h, 1, Len(h) - 1)) + 200 * h[Len(h)].amount

RECURSIVE currentValueOf(_, _)
\* lines 1166-1171
currentValueOf(h, currentPrice) ==
  IF h = <<>> THEN Finite(0)
  ELSE LET inv == h[Len(h)]
           sum == currentValueOf(SubSeq(h, 1, Len(h) - 1), currentPrice)
       IN IF includesBitcoin(toLowerCase(inv.type))
          THEN Add(sum, MarkToMarket(inv, currentPrice))
          ELSE Add(sum, Finite(200 * inv.amount))

\* 10000 * n / d rounded to the nearest integer, halves away from zero
\* (n >= 0 and d > 0), the whole part and the remainder scaled apart
RoundedHundredths(n, d) ==
  10000 * (n \div d) + (2 * 10000 * (n % d) + d) \div (2 * d)

\* parseFloat(roi.toFixed(2)) of
\* ((currentValue - totalInvested) / totalInvested) * 100
roiOf(currentValue, totalInvested) ==
  IF totalInvested > 0
  THEN IF currentValue.k = "num"
       THEN Finite(IF currentValue.v >= totalInvested
                   THEN RoundedHundredths(currentValue.v - totalInvested, totalInvested)
                   ELSE -RoundedHundredths(totalInvested - currentValue.v, totalInvested))
       ELSE currentValue
  ELSE Finite(0)

\* JSON.stringify of a number: NaN and the infinities are written as null
JSONnumber(x) == IF x.k = "num" THEN x ELSE [k |-> "null", v |-> 0]

investmentAnalysis(user, outcome) ==
  LET currentPrice == currentPriceOf(outcome)
      totalInvested == totalInvestedOf(user.investmentHistory)
      currentValue == currentValueOf(user.investmentHistory, currentPrice)
      roi == roiOf(currentValue, totalInvested)
  IN [totalInvested |-> JSONnumber(Finite(totalInvested)),
      currentValue |-> JSONnumber(currentValue),
      roi |-> JSONnumber(roi)]

NoAnalysis ==
  [totalInvested |-> Finite(0), currentValue |-> Finite(0), roi |-> Finite(0)]

InitAnalysis ==
  /\ db \in {[NewUser EXCEPT !.investmentHistory = h] : h \in AnalysisHistories}
  /\ version = 0
  /\ req = [s \in Slots |-> Idle]
  /\ res = [s \in Slots |-> [status |-> 0, code |-> "none", body |-> NoAnalysis]]
  /\ base = NewUser
  /\ rounds = 0
  /\ mark = NoMark
  /\ injected = 0
  /\ redisClient = "connected"
  /\ cmcKey = FALSE
  /\ build = "part2"
  /\ PriceAtRest
  /\ HistoryAtRest
  /\ NumbersAtRest
  /\ SessionsAtRest

GetInvestmentAnalysis ==
  /\ \E outcome \in AnalysisOutcomes :
       res' = [res EXCEPT ![1] = [status |-> 200, code |-> "OK",
                                  body |-> investmentAnalysis(db, outcome)]]
  /\ UNCHANGED <<db, version, req, base, rounds, mark, injected, priceVars, numberVars, historyVars, sessionVars>>

NextAnalysis == GetInvestmentAnalysis

SpecAnalysis == InitAnalysis /\ [][NextAnalysis]_vars

----------------------------------------------------------------------------
(* Properties *)

RECURSIVE SumWhere(_, _)
\* sum of the amounts of the expenses whose category is in the set
SumWhere(s, categories) ==
  IF s = <<>> THEN 0
  ELSE (IF Head(s).category \in categories THEN Head(s).amount ELSE 0)
       + SumWhere(Tail(s), categories)

Categories(s) == {s[i].category : i \in 1..Len(s)}

AllDone == \A s \in Slots : req[s].pc = "done"

\* C1: every allocation balance is >= 0 in every reachable ledger state
\* (a request that would drive one below zero is rejected).
AllocationsNonNegative == \A k \in Keys : db.allocations[k] >= 0

\* C2: two RecordExpense requests on one category that both loaded the
\* pre-race ledger, each amount within the pre-race balance but the sum
\* above it: exactly one succeeds and the other is rejected.
ExpenseRace ==
  /\ AllDone
  /\ \A s \in Slots : req[s].op = "postExpenses" /\ req[s].user = base
  /\ req[1].arg.category = req[2].arg.category
  /\ req[1].arg.category \in Labels
  /\ LET balance == base.allocations[categoryKey(req[1].arg.category)]
     IN /\ \A s \in Slots : req[s].arg.amount <= balance
        /\ req[1].arg.amount + req[2].arg.amount > balance

ExactlyOneExpenseWins ==
  ExpenseRace =>
    /\ Cardinality({s \in Slots : res[s].status = 200}) = 1
    /\ \A s \in Slots :
         res[s].status # 200 =>
           res[s].code \in {"INSUFFICIENT_ALLOCATION", "SERVER_ERROR"}

\* C3: after two overlapping ledger mutations have both been answered, the
\* stored ledger is the one some serial order of the two produces.
Serial(d, s) == Outcome(d, 0, d, 0, req[s].op, req[s].arg).db

NoLostUpdate ==
  AllDone => db \in {Serial(Serial(base, 1), 2), Serial(Serial(base, 2), 1)}

\* C4: initialBudget + sum(allocations) = initial value + accepted
\* injections - listed expense amounts - listed investment amounts, after
\* every step of inject / record / delete requests.
Conservation ==
  db.initialBudget + SumAllocations(db.allocations)
    = injected - SumSeq(db.expenses) - SumSeq(db.investmentHistory)

\* C4 as amended: injections and expenses on one of the five labels count
\* twice (initialBudget and the allocations both move), expenses accepted
\* under any other label move initialBudget only, investments move the
\* allocations only.
ConservationDoubleEntry ==
  db.initialBudget + SumAllocations(db.allocations)
    = 2 * injected
      - 2 * SumWhere(db.expenses, Labels)
      - SumWhere(db.expenses, Categories(db.expenses) \ Labels)
      - SumSeq(db.investmentHistory)

ConservationWitness ==
  /\ injected > 0
  /\ SumWhere(db.expenses, Labels) > 0
  /\ SumSeq(db.investmentHistory) > 0

InitialBudgetNonNegative == db.initialBudget >= 0

\* C7: an accepted RecordExpense followed immediately by DeleteExpense of
\* its index restores initialBudget, the allocations and both lists.
InverseProperty == mark.phase = "undone" => db = mark.before

InverseWitness ==
  /\ mark.phase = "undone"
  /\ db.expenses # <<>>
  /\ db.investmentHistory # <<>>
  /\ res[1].status = 200

\* C7, with the arithmetic of the language: an accepted RecordExpense
\* followed immediately by DeleteExpense of the last index restores
\* initialBudget, the allocations and the expense list exactly.
InverseExact == mark64.phase = "undone" => db64 = mark64.before

\* C8: the five labels resolve to five distinct allocation keys, and an
\* expense under any other label is never appended.
CategoryMappingTotality ==
  /\ \A c \in Labels : categoryKey(c) \in Keys
  /\ \A c, d \in Labels : categoryKey(c) = categoryKey(d) => c = d
  /\ \A i \in 1..Len(db.expenses) : db.expenses[i].category \in Labels

\* C9: a request answered with an error status leaves the stored ledger as
\* it was before the request.
ErrorLeavesLedger == [][res'[1].status >= 400 => db' = db]_vars

ErrorWitness ==
  /\ res[1].code = "SERVER_ERROR"
  /\ db.expenses # <<>>
  /\ db.initialBudget > 0

\* C10: a request that finds an unexpired "bitcoin_price" entry makes no
\* upstream call and answers with the price that was cached.
CacheHitBypassesUpstream ==
  job.hit =>
    /\ \A src \in Sources : job.calls[src] = 0
    /\ job.pc = "done"
    /\ out.status = 200 /\ out.defined /\ ~out.warning
    /\ out.price = job.expect

CacheHitWitness ==
  /\ job.hit
  /\ out.price = Num(12500050)

\* C11: in the copies with a fallback branch (part1, part2), a request that
\* misses the cache and sees every configured source fail is answered 200
\* with the fixed fallback price and a warning field beside the price.
FallbackOnExhaustion ==
  (/\ build \in {"part1", "part2"}
   /\ job.pc = "done" /\ ~job.hit
   /\ job.failed = Configured(build, cmcKey)) =>
    /\ out.status = 200
    /\ out.defined /\ out.price = Num(fallbackPrice)
    /\ out.warning

\* the same for part2 alone
FallbackOnExhaustionPart2 == build = "part2" => FallbackOnExhaustion

\* C12: GET /api/bitcoin-price always ends in a non-error response that
\* carries a price, whatever the cache and the upstream sources do.
NeverHardFails ==
  job.pc = "done" => out.status = 200 /\ out.defined /\ ~out.price.nan

\* the same for part2 alone
NeverHardFailsPart2 == build = "part2" => NeverHardFails

\* part2 never answers with an error status
NeverErrorStatusPart2 == build = "part2" /\ job.pc = "done" => out.status = 200

\* C13: within fetchWithRetry only an HTTP 429 leads to another call of
\* the same source; after a timeout or any other error the source is not
\* called again.
RetryOnlyOn429 ==
  (job.pc = "fetch" /\ job.i > 0) => job.last = "429"

\* C14: during one request each source is called at most 3 times, at most
\* 9 calls are made in all, and a request that has gone upstream always
\* ends, with exactly one response.
BoundedRetryAndTermination ==
  /\ [](\A src \in Sources : job.calls[src] <= retries)
  /\ [](job.calls["A"] + job.calls["B"] + job.calls["C"] <= 3 * retries)
  /\ [](job.sent = IF job.pc = "done" THEN 1 ELSE 0)
  /\ (job.pc = "fetch" ~> job.pc = "done")

BoundedRetryWitness ==
  /\ job.pc = "done"
  /\ \A src \in Sources : job.calls[src] = retries
  /\ job.sent = 1

\* C15: on a cache miss CoinGecko (A) is called first; CoinMarketCap (B) is
\* called only after A has failed and only with an API key; Binance (C) is
\* called only after A has failed and B has failed or been skipped; no
\* source is called once a source has succeeded.
SourceOrdering ==
  /\ job.pc = "fetch" /\ job.calls = NoCalls => job.source = "A"
  /\ job.calls["B"] > 0 => cmcKey /\ "A" \in job.failed
  /\ job.calls["C"] > 0 =>
       /\ "A" \in job.failed
       /\ IF cmcKey THEN "B" \in job.failed ELSE job.calls["B"] = 0
  /\ job.pc = "fetch" => job.won = "none" /\ job.source \notin job.failed
  /\ job.won = "A" => job.calls["B"] = 0 /\ job.calls["C"] = 0
  /\ job.won = "B" => job.calls["C"] = 0
  /\ job.hit => job.calls = NoCalls

SourceOrderingWitness ==
  /\ job.won = "C"
  /\ job.calls["B"] > 0

SourceOrderingWitnessNoKey ==
  /\ job.won = "C"
  /\ ~cmcKey

\* C16: a source's answer is taken only when it carries a valid positive
\* price, so the price answered from a source and the price held in the
\* cache are always numbers greater than zero.
OnlyPositivePriceWins ==
  /\ job.won # "none" =>
       out.defined /\ ~out.price.nan /\ out.price.n > 0
  /\ cache.present =>
       ~cachedNumber.nan /\ cachedNumber.n > 0

OnlyPositivePriceWinsWitness ==
  /\ job.won = "A"
  /\ job.set = "ok"
  /\ out.price = Num(0)
  /\ cache.present /\ cache.value = "0"

\* C17: when a source has given a price and the cache takes the write, the
\* response is sent with "bitcoin_price" already holding that price for 300
\* seconds, and the number in the response is the number stored.
WriteThrough ==
  [][(/\ job.pc = "fetch" /\ job'.pc = "done"
      /\ job'.won # "none"
      /\ out'.defined /\ ~out'.price.nan
      /\ redisClient = "connected" /\ job'.set # "threw") =>
       /\ job'.set = "ok"
       /\ cache'.present /\ cache'.ttl = 300
       /\ cache'.value = toString(out'.price)
       /\ parseFloat(cache'.value) = out'.price
       /\ out'.status = 200]_vars

WriteThroughWitness ==
  /\ job.pc = "done" /\ job.won = "C" /\ job.set = "ok"
  /\ out.price = Num(12500050)
  /\ cache = [present |-> TRUE, value |-> "125000.5", ttl |-> 300]

\* C18: a missing cache client, or a cache get or set that throws, does not
\* fail GET /api/bitcoin-history: the upstream source is still called and,
\* when it answers, its data is the response, not the synthesized series.
CacheFailureNonFatal ==
  /\ (historyJob.pc = "done" /\ ~historyJob.hit) => historyJob.calls > 0
  /\ (historyJob.pc = "done" /\ historyJob.upstream = "ok") =>
       /\ ~historyJob.synthetic
       /\ historyOut.status = 200
       /\ \A k \in DOMAIN historyOut.body : historyOut.body[k].price.scale = 10000

CacheFailureNonFatalPart2 == build = "part2" => CacheFailureNonFatal

CacheFailureWitness ==
  /\ build = "server.js"
  /\ historyJob.pc = "done"
  /\ historyJob.upstream = "ok" /\ historyJob.threw = "set"
  /\ historyJob.synthetic

\* C18, for GET /api/bitcoin-price: the same of the price endpoint.
CacheFailureNonFatalPrice ==
  /\ (job.pc = "done" /\ ~job.hit) => job.calls["A"] > 0
  /\ job.won # "none" => out.status = 200

\* C19: when the cache misses and every attempt on the upstream source has
\* failed, GET /api/bitcoin-history answers with success and exactly 7
\* entries, one for each of the 7 consecutive days ending today, in
\* ascending order, each price within 5% of the fallback price.
FallbackSeriesShape ==
  (historyJob.pc = "done" /\ historyJob.upstream = "failed") =>
    /\ historyOut.status = 200
    /\ Len(historyOut.body) = 7
    /\ \A k \in 1..6 : historyOut.body[k + 1].date = historyOut.body[k].date + 1
    /\ historyOut.body[7].date = historyJob.today
    /\ \A k \in 1..7 :
         /\ historyOut.body[k].price.n = fallbackPrice
         /\ historyOut.body[k].price.scale >= 9500
         /\ historyOut.body[k].price.scale <= 10500

\* the same with the server's clock in a zone that keeps one UTC offset
FallbackSeriesShapeFixedOffset ==
  historyJob.zone # "America/New_York" => FallbackSeriesShape

\* the series without its dates being consecutive
FallbackSeriesShapeButDates ==
  (historyJob.pc = "done" /\ historyJob.upstream = "failed") =>
    /\ historyOut.status = 200
    /\ Len(historyOut.body) = 7
    /\ \A k \in 1..6 : historyOut.body[k + 1].date >= historyOut.body[k].date
    /\ historyOut.body[7].date = historyJob.today
    /\ \A k \in 1..7 :
         /\ historyOut.body[k].price.n = fallbackPrice
         /\ historyOut.body[k].price.scale >= 9500
         /\ historyOut.body[k].price.scale <= 10500

FallbackSeriesWitness ==
  /\ historyJob.pc = "done" /\ historyJob.upstream = "failed"
  /\ historyJob.calls = retries
  /\ historyJob.zone = "America/New_York"
  /\ historyOut.body[4].date = 7
  /\ historyOut.body[5].date = 9

\* C20: a history response synthesized from the fallback price carries an
\* explicit mark of being synthetic, so that a client can tell it from real
\* upstream or cached data by the response alone.
SyntheticHistoryMarked ==
  /\ (historyJob.pc = "done" /\ historyJob.synthetic) => historyOut.marked
  /\ (historyJob.pc = "done" /\ ~historyJob.synthetic) => ~historyOut.marked

SyntheticHistoryWitness ==
  /\ historyJob.pc = "done" /\ historyJob.synthetic
  /\ historyJob.upstream = "failed"
  /\ historyOut.status = 200
  /\ ~historyOut.marked

\* C21: an accepted InjectBudget(amount) with amount > 0 adds amount to
\* initialBudget and 50%, 20%, 15%, 5% and 10% of amount to essentials,
\* savings, selfInvestment, charity and emergency; the five increments add
\* up to amount, and the expenses and investments are left as they were.
InjectSplitsBudget ==
  [][\A body \in BudgetBodies :
       (body.initialBudget > 0 /\ Serve("postInitialBudget", "valid", body)) =>
         LET amount == body.initialBudget
             increment == [k \in Keys |-> db'.allocations[k] - db.allocations[k]]
         IN /\ res'[1].status = 200
            /\ db'.initialBudget = db.initialBudget + amount
            /\ 100 * increment["essentials"] = 50 * amount
            /\ 100 * increment["savings"] = 20 * amount
            /\ 100 * increment["selfInvestment"] = 15 * amount
            /\ 100 * increment["charity"] = 5 * amount
            /\ 100 * increment["emergency"] = 10 * amount
            /\ increment["essentials"] + increment["savings"]
                 + increment["selfInvestment"] + increment["charity"]
                 + increment["emergency"] = amount
            /\ db'.expenses = db.expenses
            /\ db'.investmentHistory = db.investmentHistory]_vars

\* an injection of 20 into a ledger that already held balances and an expense
InjectSplitsWitness ==
  /\ injected = 20
  /\ res[1].status = 200
  /\ db.initialBudget = 17
  /\ Len(db.expenses) = 1
  /\ db.allocations["essentials"] = 12
  /\ db.allocations["savings"] = 8
  /\ db.allocations["selfInvestment"] = 6
  /\ db.allocations["charity"] = 3
  /\ db.allocations["emergency"] = 3

\* C22: InjectBudget with amount <= 0, zero included, is answered with a
\* client error and leaves initialBudget and the allocations as they were.
RejectsNonPositiveInjection ==
  [][\A body \in BudgetBodies :
       (body.initialBudget <= 0 /\ Serve("postInitialBudget", "valid", body)) =>
         /\ res'[1].status = 400
         /\ db' = db]_vars

\* the same for negative amounts only
RejectsNegativeInjection ==
  [][\A body \in BudgetBodies :
       (body.initialBudget < 0 /\ Serve("postInitialBudget", "valid", body)) =>
         /\ res'[1].status = 400
         /\ db' = db]_vars

\* an injection of zero changes nothing, whatever it is answered with
ZeroInjectionLeavesLedger ==
  [][\A body \in BudgetBodies :
       (body.initialBudget = 0 /\ Serve("postInitialBudget", "valid", body)) =>
         db' = db]_vars

\* C23: every expense in a ledger has amount > 0 and every investment in a
\* ledger has amount > 0 and price > 0; a RecordExpense or RecordInvestment
\* with a zero amount or a zero price is never committed.
ListedAmountsPositive ==
  /\ \A i \in 1..Len(db.expenses) : db.expenses[i].amount > 0
  /\ \A i \in 1..Len(db.investmentHistory) :
       /\ db.investmentHistory[i].amount > 0
       /\ db.investmentHistory[i].price > 0

\* negative amounts and prices are kept out
ListedAmountsNonNegative ==
  /\ \A i \in 1..Len(db.expenses) : db.expenses[i].amount >= 0
  /\ \A i \in 1..Len(db.investmentHistory) :
       /\ db.investmentHistory[i].amount >= 0
       /\ db.investmentHistory[i].price >= 0

ZeroAmountWitness ==
  /\ db.expenses # <<>> /\ db.expenses[1].amount = 0
  /\ db.investmentHistory # <<>> /\ db.investmentHistory[1].price = 0

\* the investment types the first copy of the route admits
AllowList == {"Bitcoin ETF", "Vang", "Chung khoan"}

\* C24: every investment in a ledger has a type of the allow-list; a
\* RecordInvestment with another type fails and commits nothing.
ListedTypesAllowed ==
  \A i \in 1..Len(db.investmentHistory) :
    db.investmentHistory[i].type \in AllowList

UnknownTypeRejected ==
  [][\A body \in OtherInvestmentBodies :
       (body.type \notin AllowList /\ Serve("postInvestments", "valid", body))
         => (res'[1].status = 400 /\ db' = db)]_vars

\* the request is within the investment budget and above 10% of the portfolio
\* as the serving copy computes it
Breach(body) ==
  LET totalPortfolio ==
        IF build = "server.js"
        THEN SumAllocations(db.allocations)
        ELSE SumAllocations(db.allocations) + SumSeq(db.investmentHistory)
  IN /\ body.amount <= db.allocations["selfInvestment"] + db.allocations["emergency"]
     /\ totalPortfolio > 0
     /\ ExceedsPortfolioShare(body.amount, totalPortfolio)

\* C25: a RecordInvestment whose amount exceeds 10% of the portfolio is still
\* committed: the breach is a warning, not a failure.
BreachStillCommitted ==
  [][\A body \in InvestmentBodies \cup OtherInvestmentBodies :
       (Breach(body) /\ Serve("postInvestments", "valid", body))
         => ( /\ res'[1].status = 200
              /\ Len(db'.investmentHistory) = Len(db.investmentHistory) + 1 )]_vars

\* the breach is answered 400 and the ledger is unchanged
BreachBlocksInvestment ==
  [][\A body \in InvestmentBodies \cup OtherInvestmentBodies :
       (Breach(body) /\ Serve("postInvestments", "valid", body))
         => (res'[1].status = 400 /\ db' = db)]_vars

BreachWitness ==
  /\ res[1].status = 400
  /\ res[1].code = "PORTFOLIO_RISK"
  /\ db.investmentHistory = <<>>

\* the index parameter names no element of a list of this length
NoSuchElement(param, length) ==
  LET index == parseInt(param)
  IN index.nan \/ index.n < 0 \/ index.n >= length

\* C26: a DeleteExpense whose index is negative, at or past the length of the
\* list, or not a number fails with a client error and leaves the ledger
\* unchanged.
BadExpenseIndexIsClientError ==
  [][\A param \in IndexParams :
       ( /\ NoSuchElement(param, Len(db.expenses))
         /\ Serve("deleteExpense", "valid", param) )
         => (res'[1].status = 400 /\ db' = db)]_vars

\* a numeric index outside the list is a client error
ExpenseIndexOutOfRangeRejected ==
  [][\A param \in IndexParams :
       ( /\ ~parseInt(param).nan
         /\ NoSuchElement(param, Len(db.expenses))
         /\ Serve("deleteExpense", "valid", param) )
         => (res'[1].status = 400 /\ db' = db)]_vars

\* an index that is not a number is a server error; the ledger is unchanged
ExpenseIndexNaNIsServerError ==
  [][\A param \in IndexParams :
       (parseInt(param).nan /\ Serve("deleteExpense", "valid", param))
         => (res'[1].status = 500 /\ db' = db)]_vars

\* C27: a DeleteInvestment whose index is negative, at or past the length of
\* the list, or not a number fails with a client error, removes no investment
\* and changes no balance.
BadInvestmentIndexIsClientError ==
  [][\A param \in IndexParams :
       ( /\ NoSuchElement(param, Len(db.investmentHistory))
         /\ Serve("deleteInvestment", "valid", param) )
         => (res'[1].status = 400 /\ db' = db)]_vars

\* a numeric index outside the list is a client error
InvestmentIndexOutOfRangeRejected ==
  [][\A param \in IndexParams :
       ( /\ ~parseInt(param).nan
         /\ NoSuchElement(param, Len(db.investmentHistory))
         /\ Serve("deleteInvestment", "valid", param) )
         => (res'[1].status = 400 /\ db' = db)]_vars

\* an index that is not a number never removes an investment
InvestmentIndexNaNRemovesNothing ==
  [][\A param \in IndexParams :
       (parseInt(param).nan /\ Serve("deleteInvestment", "valid", param))
         => db'.investmentHistory = db.investmentHistory]_vars

\* an index that is not a number changes no balance
InvestmentIndexNaNKeepsBalances ==
  [][\A param \in IndexParams :
       (parseInt(param).nan /\ Serve("deleteInvestment", "valid", param))
         => ( /\ db'.allocations = db.allocations
              /\ db'.initialBudget = db.initialBudget )]_vars

\* C28: ResetBudget zeroes initialBudget and every allocation and empties the
\* expense and investment lists; a second ResetBudget changes nothing.
ResetClearsLedger ==
  [][Serve("deleteBudget", "valid", NoBody)
       => ( /\ res'[1].status = 200
            /\ db'.initialBudget = 0
            /\ \A k \in Keys : db'.allocations[k] = 0
            /\ db'.expenses = <<>>
            /\ db'.investmentHistory = <<>> )]_vars

\* the balances and the expense list are cleared
ResetClearsBalancesAndExpenses ==
  [][Serve("deleteBudget", "valid", NoBody)
       => ( /\ res'[1].status = 200
            /\ db'.initialBudget = 0
            /\ \A k \in Keys : db'.allocations[k] = 0
            /\ db'.expenses = <<>> )]_vars

\* a reset of a ledger that a reset produced changes nothing
ResetIdempotent ==
  \A user \in {db} :
    LET once == Handle("deleteBudget", NoBody, user).user
    IN Handle("deleteBudget", NoBody, once).user = once

\* C29: SetAllocations with five non-negative values replaces the five
\* allocation balances with exactly the supplied values and leaves
\* initialBudget, the expense list and the investment list unchanged; a map
\* with a negative value is rejected and the ledger is unchanged.
SetAllocationsReplaces ==
  [][\A body \in AllocationBodies \cup OtherAllocationBodies :
       Serve("postAllocations", "valid", body)
         => IF \A k \in Keys : body[k] >= 0
            THEN /\ res'[1].status = 200
                 /\ \A k \in Keys : db'.allocations[k] = body[k]
                 /\ db'.initialBudget = db.initialBudget
                 /\ db'.expenses = db.expenses
                 /\ db'.investmentHistory = db.investmentHistory
            ELSE /\ res'[1].status = 400
                 /\ db' = db]_vars

\* the supplied values are stored beside an initialBudget that is not their
\* sum and an investment recorded before
SetAllocationsWitness ==
  /\ res[1].status = 200
  /\ db.allocations["essentials"] = 5
  /\ db.allocations["savings"] = 4
  /\ db.allocations["selfInvestment"] = 3
  /\ db.allocations["charity"] = 2
  /\ db.allocations["emergency"] = 1
  /\ db.initialBudget = 20
  /\ Len(db.investmentHistory) = 1

\* C30: an accepted RecordInvestment followed immediately by DeleteInvestment
\* at the index of the new record restores the five allocation balances,
\* initialBudget, the investment list and the expense list.
InvestmentInverseExact == mark64.phase = "divested" => db64 = mark64.before

\* everything but allocations.selfInvestment is restored
InvestmentInverseButSelfInvestment ==
  mark64.phase = "divested" =>
    /\ db64.initialBudget = mark64.before.initialBudget
    /\ db64.expenses = mark64.before.expenses
    /\ db64.investmentHistory = mark64.before.investmentHistory
    /\ \A k \in Keys \ {"selfInvestment"} :
         db64.allocations[k] = mark64.before.allocations[k]

InvestmentInverseWitness ==
  /\ mark64.phase = "divested"
  /\ db64.allocations["selfInvestment"] # mark64.before.allocations["selfInvestment"]

\* with whole amounts, in either copy, the delete at the index of the new
\* record gives back the ledger the accepted investment was made on
InvestmentInverseWhole ==
  \A body \in InvestmentBodies \cup OtherInvestmentBodies :
    LET recorded == Handle("postInvestments", body, db)
        last == CASE Len(db.investmentHistory) = 0 -> "0"
                  [] Len(db.investmentHistory) = 1 -> "1"
                  [] OTHER -> "2"
    IN (Valid("postInvestments", body) /\ recorded.save)
         => Handle("deleteInvestment", last, recorded.user).user = db

InvestmentInverseWholeWitness ==
  \E body \in InvestmentBodies :
    /\ Valid("postInvestments", body)
    /\ Handle("postInvestments", body, db).save
    /\ db.investmentHistory # <<>>

\* the stored document holds every field change of the handler result r,
\* made on the document `loaded`
Committed(stored, loaded, r) ==
  /\ r.user.initialBudget # loaded.initialBudget
       => stored.initialBudget = r.user.initialBudget
  /\ \A k \in Keys :
       r.user.allocations[k] # loaded.allocations[k]
         => stored.allocations[k] = r.user.allocations[k]
  /\ r.expensesOp = "push"
       => stored.expenses # <<>> /\ Last(stored.expenses) = Last(r.user.expenses)
  /\ r.expensesOp = "set" => stored.expenses = r.user.expenses
  /\ r.investmentsOp = "push"
       => /\ stored.investmentHistory # <<>>
          /\ Last(stored.investmentHistory) = Last(r.user.investmentHistory)
  /\ r.investmentsOp = "set" => stored.investmentHistory = r.user.investmentHistory

NoneBitcoinLinked(h) ==
  \A i \in 1..Len(h) : ~includesBitcoin(toLowerCase(h[i].type))

\* the analysis carries the sum of the amounts
AnalysisTotalInvested ==
  res[1].status = 200
    => res[1].body.totalInvested = Finite(200 * SumSeq(db.investmentHistory))

\* without a Bitcoin-linked investment the value is the amount invested and
\* roi is 0, whatever the price source answered
AnalysisFaceValue ==
  (res[1].status = 200 /\ NoneBitcoinLinked(db.investmentHistory))
    => /\ res[1].body.currentValue = res[1].body.totalInvested
       /\ res[1].body.roi = Finite(0)

\* roi as a number: 0 without an amount invested, otherwise
\* (currentValue - totalInvested) / totalInvested * 100 to two decimals
AnalysisRoi ==
  res[1].status = 200
    => LET totalInvested == res[1].body.totalInvested.v
           currentValue == res[1].body.currentValue
           roi == res[1].body.roi
       IN /\ roi.k = "num"
          /\ totalInvested = 0 => roi.v = 0
          /\ totalInvested > 0
               => /\ currentValue.k = "num"
                  /\ roi = roiOf(currentValue, totalInvested)

\* C32: totalInvested is the sum of the investment amounts; roi is 0 when
\* totalInvested = 0 and otherwise
\* (currentValue - totalInvested) / totalInvested * 100; without a
\* Bitcoin-linked investment currentValue = totalInvested and roi = 0
\* regardless of the current price.
AnalysisResult == AnalysisTotalInvested /\ AnalysisRoi /\ AnalysisFaceValue

\* roi is that number whenever the value of the holdings is one
AnalysisRoiOfFiniteValue ==
  (res[1].status = 200 /\ res[1].body.currentValue.k = "num")
    => LET totalInvested == res[1].body.totalInvested.v
       IN res[1].body.roi =
            IF totalInvested = 0 THEN Finite(0)
            ELSE roiOf(res[1].body.currentValue, totalInvested)

\* a Bitcoin ETF bought at a price of 2 is analysed with roi null
AnalysisNullWitness ==
  /\ res[1].status = 200
  /\ db.investmentHistory = <<[amount |-> 1, price |-> 2, type |-> "Bitcoin ETF"]>>
  /\ res[1].body.roi.k = "null"

\* C33: DeleteAccount removes the account's ledger with its expenses and
\* investments; a second DeleteAccount answers without error and leaves the
\* store unchanged; after the deletion no read answers with any part of the
\* ledger and no ledger route brings it back.
DeleteAccountRemovesLedger ==
  [][ /\ DeleteAccount => (db' = NoDocument /\ res'[1].status = 200)
      /\ (db = NoDocument /\ DeleteAccount) => db' = db
      /\ (db = NoDocument /\ GetLedger)
           => (res'[1].status = 500 /\ res'[1].body = NoBody)
      /\ db = NoDocument => db' = NoDocument ]_vars

\* a ledger that money was injected into was deleted, and a request made
\* afterwards was answered 500
DeleteAccountWitness ==
  /\ db = NoDocument
  /\ injected = 20
  /\ res[1].status = 500

\* C34: a RecordExpense with a known label is accepted exactly when
\* amount <= allocations[category]; on acceptance the expense becomes the
\* last element of the list, initialBudget and that category decrease by
\* amount, and the other four categories and the investment list are
\* unchanged.
RecordExpenseContract ==
  [][\A body \in ExpenseBodies \cup ZeroExpenseBodies :
       ( /\ Valid("postExpenses", body)
         /\ body.category \in Labels
         /\ Serve("postExpenses", "valid", body) )
         => LET key == CategoryTable[body.category]
            IN IF body.amount <= db.allocations[key]
               THEN /\ res'[1].status = 200
                    /\ db'.expenses = Append(db.expenses, body)
                    /\ db'.initialBudget = db.initialBudget - body.amount
                    /\ db'.allocations[key] = db.allocations[key] - body.amount
                    /\ \A k \in Keys \ {key} : db'.allocations[k] = db.allocations[k]
                    /\ db'.investmentHistory = db.investmentHistory
               ELSE /\ res'[1].status = 400
                    /\ db' = db]_vars

\* an expense equal to the balance of its category was accepted and left
\* the balance at 0
RecordExpenseWitness ==
  /\ res[1].status = 200
  /\ db.expenses # <<>>
  /\ Last(db.expenses).amount = 3
  /\ Last(db.expenses).category = "Dau tu ban than"
  /\ db.allocations["selfInvestment"] = 0
  /\ db.allocations["essentials"] = 10
  /\ db.initialBudget = 17

\* C35: a RecordInvestment with positive amount and price, an allowed type,
\* amount <= selfInvestment + emergency and no concentration breach
\* succeeds, appends exactly one investment at the end of the list,
\* decreases selfInvestment by amount and leaves emergency, the other three
\* categories, initialBudget and the expense list unchanged.
RecordInvestmentContract ==
  [][\A body \in InvestmentBodies \cup OtherInvestmentBodies :
       ( /\ body.amount > 0 /\ body.price > 0 /\ body.type \in AllowList
         /\ body.amount <= db.allocations["selfInvestment"] + db.allocations["emergency"]
         /\ ~Breach(body)
         /\ Serve("postInvestments", "valid", body) )
         => ( /\ res'[1].status = 200
              /\ db'.investmentHistory = Append(db.investmentHistory, body)
              /\ db'.allocations["selfInvestment"] =
                   db.allocations["selfInvestment"] - body.amount
              /\ \A k \in Keys \ {"selfInvestment"} :
                   db'.allocations[k] = db.allocations[k]
              /\ db'.initialBudget = db.initialBudget
              /\ db'.expenses = db.expenses )]_vars

\* the list without its element at 0-based position i, the others in order
Without(s, i) == SubSeq(s, 1, i) \o SubSeq(s, i + 2, Len(s))

\* C36: an accepted DeleteExpense(i) removes only element i: the list is
\* the previous list without element i, the others in their order; the
\* refund goes to the category recorded in the deleted expense, and the
\* other four categories and the investment list are unchanged.
DeleteExpenseFrame ==
  [][\A param \in IndexParams :
       ( /\ ~NoSuchElement(param, Len(db.expenses))
         /\ Serve("deleteExpense", "valid", param) )
         => LET i == parseInt(param).n
                deleted == db.expenses[i + 1]
            IN /\ res'[1].status = 200
               /\ db'.expenses = Without(db.expenses, i)
               /\ db'.initialBudget = db.initialBudget + deleted.amount
               /\ IF deleted.category \in Labels
                  THEN LET key == CategoryTable[deleted.category]
                       IN /\ db'.allocations[key] = db.allocations[key] + deleted.amount
                          /\ \A k \in Keys \ {key} :
                               db'.allocations[k] = db.allocations[k]
                  ELSE db'.allocations = db.allocations
               /\ db'.investmentHistory = db.investmentHistory]_vars

\* the first of two expenses of different categories was deleted: the
\* second is now element 0 and the refund went to the first's category
DeleteExpenseWitness ==
  /\ res[1].status = 200
  /\ Len(db.expenses) = 1
  /\ db.expenses[1].category = "Dau tu ban than"
  /\ db.allocations["selfInvestment"] = 0
  /\ db.allocations["essentials"] = 10
  /\ db.initialBudget = 17
  /\ mark.phase = "none"

\* C37: in every state reachable from a fresh account by InjectBudget,
\* RecordExpense, DeleteExpense, RecordInvestment, DeleteInvestment and
\* ResetBudget, the sum of the five allocations equals initialBudget minus
\* the sum of the amounts of the investments in the list.
AllocationsEqualBudgetLessInvestments ==
  SumAllocations(db.allocations) = db.initialBudget - SumSeq(db.investmentHistory)

\* C38: degraded values are never cached.  A step of the price handler that
\* answers with the fallback price leaves "bitcoin_price" as it was, and a
\* step of the history handler that answers with a synthesized series
\* leaves "bitcoin_history" as it was; an answer served from either key is
\* never the degraded value; and the request that follows a fallback
\* answer and finds no entry under the key goes to the upstream source.
\* (In the copies whose history handler has no try/catch around its Redis
\* read, a read that throws ends in the catch block before any upstream
\* call; that request did not find the key empty.)
DegradedNeverCached ==
  [][/\ (Fetch /\ job'.pc = "done" /\ out'.defined
           /\ out'.price = Num(fallbackPrice))
          => cache' = cache
     /\ ((GetBitcoinHistory \/ FetchHistory)
           /\ historyJob'.pc = "done" /\ historyJob'.synthetic)
          => historyCache' = historyCache
     /\ (GetBitcoinPrice /\ job'.hit) => out'.price # Num(fallbackPrice)
     /\ (GetBitcoinHistory /\ historyJob'.hit)
          => \A k \in DOMAIN historyOut'.body :
               historyOut'.body[k].price.n # fallbackPrice
     /\ (GetBitcoinPrice /\ build = "part2" /\ job.pc = "done"
           /\ out = FallbackAnswer(fallbackPrice) /\ ~cache.present)
          => job'.pc = "fetch"
     /\ (GetBitcoinHistory /\ historyJob.pc = "done" /\ historyJob.synthetic
           /\ ~historyCache.present
           /\ (build = "part2" \/ historyJob'.threw # "get"))
          => historyJob'.pc = "fetch"]_vars

\* every source has failed, the fallback price was answered, the Redis
\* client is connected and "bitcoin_price" holds no entry
DegradedPriceWitness ==
  /\ build = "part2"
  /\ redisClient = "connected"
  /\ job.pc = "done"
  /\ job.calls["A"] = retries
  /\ job.calls["C"] = retries
  /\ out = FallbackAnswer(fallbackPrice)
  /\ cache = NoEntry

\* C39 as stated: /api/refresh-token issues an access token only when the
\* presented token is the one the account's most recent successful login
\* stored; a token issued by an earlier login, and any token once the
\* account is deleted, is answered 401 without an access token.
RefreshTokenRule ==
  [][\A token \in Presentable :
       Refresh(token) =>
         /\ authOut'.status = 200 =>
              /\ db # NoDocument
              /\ logins # <<>>
              /\ token = logins[Len(logins)]
         /\ (\E k \in 1..(Len(logins) - 1) : logins[k] = token) =>
              /\ authOut'.status = 401
              /\ authOut'.accessToken = NoToken
         /\ db = NoDocument =>
              /\ authOut'.status = 401
              /\ authOut'.accessToken = NoToken]_vars

\* C39 as amended: the token of an earlier login is rejected when it is not
\* also the token of the most recent login (two logins in the same second
\* are answered with the same string).
RefreshTokenRuleDistinct ==
  [][\A token \in Presentable :
       Refresh(token) =>
         /\ authOut'.status = 200 =>
              /\ db # NoDocument
              /\ logins # <<>>
              /\ token = logins[Len(logins)]
              /\ authOut'.accessToken = jwtSign("access", accessLifetime, clock)
         /\ authOut'.status # 200 =>
              /\ authOut'.status = 401
              /\ authOut'.accessToken = NoToken
         /\ ((\E k \in 1..(Len(logins) - 1) : logins[k] = token)
               /\ token # logins[Len(logins)]) =>
              authOut'.status = 401
         /\ db = NoDocument => authOut'.status = 401]_vars

\* the token of the first login, still within its lifetime, was presented
\* after a later login and rejected
RefreshTokenWitness ==
  /\ db # NoDocument
  /\ Len(logins) = 2
  /\ logins[1] # logins[2]
  /\ authOut.route = "refresh-token"
  /\ authOut.presented = logins[1]
  /\ jwtVerify(authOut.presented, "refresh", clock)
  /\ authOut.status = 401
  /\ authOut.code = "INVALID_REFRESH_TOKEN"

====
